---- MODULE Spec2Model ----
(***************************************************************************)
(* Box blur: the serial, OpenMP, MPI, OpenCL and CUDA programs of the      *)
(* repository run one after the other on the same decoded image, in the    *)
(* order of the benchmark script (serial, OpenMP, MPI, OpenCL, CUDA).      *)
(*                                                                         *)
(* In Spec every program is started with an input and an output path and   *)
(* the image decodes successfully; every main calls its kernel with        *)
(* kernel_size 5.  The kernel function itself takes the kernel size as an  *)
(* argument and is exercised with other sizes in KernelSpec.               *)
(*                                                                         *)
(* In FaultSpec one program is started on its own with any argument count, *)
(* and the image load, the allocations, the device calls and the image     *)
(* writer may fail; FairFaultSpec adds that a program which can take a     *)
(* step takes one.  PgmSpec is the PGM writer and reader of                *)
(* image_io_pgm_old.c: an image is written and the file is read back.      *)
(*                                                                         *)
(* C buffers are 0-based; a buffer is a sequence and byte i of the buffer  *)
(* is buf[i + 1].  A byte that was allocated but never stored is Undef.    *)
(***************************************************************************)
EXTENDS Integers, Sequences, FiniteSets, TLC

\* ------------------------------------------------------------------ bounds
MaxDim == 2
MaxSize == 3
MaxThreads == 2

\* ------------------------------------------------------- program constants
LOCAL_WORK_SIZE == 16
\* the kernel_size every main passes to its kernel
KERNEL_SIZE == 5

\* largest value of the int accumulator "sum"
INT_MAX == 2147483647

Undef == -1
NoImage == <<>>
\* what a buffer becomes after a store outside its bounds
OutOfBounds == <<-2>>
\* what a cell holds after "sum / count" was executed with count = 0
DivisionByZero == -3

Backends == {"serial", "openmp", "mpi", "opencl"}
\* the programs of the benchmark: the four backends and the CUDA program
Programs == Backends \cup {"cuda"}
\* threads per block dimension the CUDA program is started with (default 16)
BlockDims == {2, 16}
ChannelCounts == {1, 3, 4}
KernelSizes == {1, 3, 5}
Patterns == {"ramp", "checker", "white", "grey"}

\* width x height of the decoded images: every size up to MaxDim, the sizes
\* of the two worked examples, and one size the OpenCL work-group divides.
ExtraDims == {<<4, 4>>, <<5, 5>>}
Dims == ((1..MaxDim) \X (1..MaxDim)) \cup ExtraDims

\* <<dims, channels, kernel size, pattern>> of the decoded images
Configs ==
    (Dims \X ChannelCounts \X KernelSizes \X Patterns)
    \cup {<<<<LOCAL_WORK_SIZE, LOCAL_WORK_SIZE>>, 1, 5, "ramp">>}

\* the images the benchmark runs the five programs on: the non-uniform
\* patterns (the uniform ones are inputs of KernelSpec only)
BenchmarkPatterns == {"ramp", "checker"}

\* the configurations the mains run with
MainConfigs ==
    {cf \in Configs : cf[3] = KERNEL_SIZE /\ cf[4] \in BenchmarkPatterns}

\* ------------------------------------------------------------- state
VARIABLES
    width, height, channels, input_image, kernel_size,   \* decoded image, kernel edge
    phase,          \* program of the benchmark that runs next / is running
    written,        \* backend -> buffer handed to the image writer (NoImage: none)
    exit_status,    \* backend -> "none" | "EXIT_SUCCESS" | "EXIT_FAILURE"
    num_threads, omp_output, omp_done,                    \* OpenMP program
    size, pc, m_width, m_height, m_channels,              \* MPI program, per rank
    rows_per_process, start_row, end_row, my_rows,
    input_rgb, my_output, output_rgb_root,
    meta_bcast, input_bcast, gather_msgs, recv_counts, displs,
    ocl_pc, ocl_output, d_output,                         \* OpenCL program
    cuda_pc, block_dim, cuda_output, cuda_d_output,       \* CUDA program
    argc,             \* program -> argc it is started with (0: not started)
    printed,          \* program -> the messages it has printed
    failed,           \* program -> the library calls that have failed for it
    kernel_called,    \* program -> its blur kernel has been called
    device_requests,  \* device types asked of clGetDeviceIDs, in order
    pgm_pc, pgm_image, pgm_file, pgm_result               \* PGM reader and writer

imgVars == <<width, height, channels, input_image, kernel_size>>
runVars == <<phase, written, exit_status>>
ompVars == <<num_threads, omp_output, omp_done>>
mpiVars == <<size, pc, m_width, m_height, m_channels, rows_per_process,
             start_row, end_row, my_rows, input_rgb, my_output,
             output_rgb_root, meta_bcast, input_bcast, gather_msgs,
             recv_counts, displs>>
oclVars == <<ocl_pc, ocl_output, d_output>>
cudaVars == <<cuda_pc, block_dim, cuda_output, cuda_d_output>>
faultVars == <<argc, printed, failed, kernel_called, device_requests>>
pgmVars == <<pgm_pc, pgm_image, pgm_file, pgm_result>>
envVars == <<faultVars, pgmVars>>
vars == <<imgVars, runVars, ompVars, mpiVars, oclVars, cudaVars, envVars>>

\* ------------------------------------------------------------- helpers
Max(a, b) == IF a > b THEN a ELSE b

\* (unsigned char) conversion of a non-negative int
ToUChar(v) == v % 256

\* malloc(n) for n > 0: n bytes, none of them stored yet
Malloc(n) == [i \in 1..n |-> Undef]

\* sample (x, y, c) of the generated input pattern p
PatternSample(p, w, nch, x, y, c) ==
    CASE p = "ramp"    -> ((y * w + x) * nch + c) % 256
      [] p = "checker" -> IF (x + y + c) % 2 = 0 THEN 255 ELSE 0
      [] p = "white"   -> 255
      [] p = "grey"    -> 100

MakeImage(p, w, h, nch) ==
    [i \in 1..(w * h * nch) |->
        LET s == i - 1
            c == s % nch
            px == s \div nch
        IN PatternSample(p, w, nch, px % w, px \div w, c)]

\* ------------------------------------------------ serial: apply_box_blur_color
\* index of the input sample read for output channel c at pixel (nx, ny)
serial_src_idx(w, nch, nx, ny, c) ==
    (ny * w + nx) * nch + (IF nch = 1 THEN 0 ELSE c)

\* mutant: neighbours outside the image count as zero samples (zero padding)
RECURSIVE serial_window_zeroPadded(_, _, _, _, _, _, _, _, _, _, _)
serial_window_zeroPadded(input, w, h, nch, k_offset, x, y, c, j, sum, count) ==
    IF j = (2 * k_offset + 1) * (2 * k_offset + 1)
    THEN <<sum, count>>
    ELSE LET m == (j \div (2 * k_offset + 1)) - k_offset
             n == (j % (2 * k_offset + 1)) - k_offset
             nx == x + n
             ny == y + m
             src_idx == (ny * w + nx) * nch + (IF nch = 1 THEN 0 ELSE c)
         IN IF nx >= 0 /\ nx < w /\ ny >= 0 /\ ny < h
            THEN serial_window_zeroPadded(input, w, h, nch, k_offset, x, y, c,
                               j + 1, sum + input[src_idx + 1], count + 1)
            ELSE serial_window_zeroPadded(input, w, h, nch, k_offset, x, y, c,
                               j + 1, sum, count + 1)

\* mutant: the pixel itself is left out of its own window
RECURSIVE serial_window_skipsCentre(_, _, _, _, _, _, _, _, _, _, _)
serial_window_skipsCentre(input, w, h, nch, k_offset, x, y, c, j, sum, count) ==
    IF j = (2 * k_offset + 1) * (2 * k_offset + 1)
    THEN <<sum, count>>
    ELSE LET m == (j \div (2 * k_offset + 1)) - k_offset
             n == (j % (2 * k_offset + 1)) - k_offset
             nx == x + n
             ny == y + m
             src_idx == serial_src_idx(w, nch, nx, ny, c)
         IN IF nx >= 0 /\ nx < w /\ ny >= 0 /\ ny < h /\ ~(m = 0 /\ n = 0)
            THEN serial_window_skipsCentre(input, w, h, nch, k_offset, x, y, c,
                               j + 1, sum + input[src_idx + 1], count + 1)
            ELSE serial_window_skipsCentre(input, w, h, nch, k_offset, x, y, c,
                               j + 1, sum, count)

\* the m, n loops: j enumerates the kernel_size x kernel_size window row-major,
\* sum and count are the accumulators
RECURSIVE serial_window(_, _, _, _, _, _, _, _, _, _, _)
serial_window(input, w, h, nch, k_offset, x, y, c, j, sum, count) ==
    IF j = (2 * k_offset + 1) * (2 * k_offset + 1)
    THEN <<sum, count>>
    ELSE LET m == (j \div (2 * k_offset + 1)) - k_offset
             n == (j % (2 * k_offset + 1)) - k_offset
             nx == x + n
             ny == y + m
             src_idx == serial_src_idx(w, nch, nx, ny, c)
         IN IF nx >= 0 /\ nx < w /\ ny >= 0 /\ ny < h
            THEN serial_window(input, w, h, nch, k_offset, x, y, c, j + 1,
                               sum + input[src_idx + 1], count + 1)
            ELSE serial_window(input, w, h, nch, k_offset, x, y, c, j + 1,
                               sum, count)

\* mutant: the sum is divided by the full window area
serial_cell_fullWindow(input, w, h, nch, ks, x, y, c) ==
    LET acc == serial_window(input, w, h, nch, ks \div 2, x, y, c, 0, 0, 0)
    IN ToUChar(acc[1] \div (ks * ks))

\* mutant: a grey input is stored in the red cell only
serial_cell_greyToRedOnly(input, w, h, nch, ks, x, y, c) ==
    LET acc == serial_window(input, w, h, nch, ks \div 2, x, y, c, 0, 0, 0)
    IN IF nch = 1 /\ c > 0
       THEN 0
       ELSE IF acc[2] = 0 THEN DivisionByZero ELSE ToUChar(acc[1] \div acc[2])

\* the value stored for channel c of pixel (x, y)
serial_cell(input, w, h, nch, ks, x, y, c) ==
    LET acc == serial_window(input, w, h, nch, ks \div 2, x, y, c, 0, 0, 0)
    IN IF acc[2] = 0 THEN DivisionByZero ELSE ToUChar(acc[1] \div acc[2])

\* the x loop of row y; the c loop stores the three cells of pixel (x, y)
RECURSIVE serial_row(_, _, _, _, _, _, _, _)
serial_row(input, output_rgb, w, h, nch, ks, y, x) ==
    IF x >= w
    THEN output_rgb
    ELSE LET dst(c) == (y * w + x) * 3 + c
         IN IF dst(2) >= Len(output_rgb)
            THEN OutOfBounds
            ELSE serial_row(input,
                   [output_rgb EXCEPT
                       ![dst(0) + 1] = serial_cell(input, w, h, nch, ks, x, y, 0),
                       ![dst(1) + 1] = serial_cell(input, w, h, nch, ks, x, y, 1),
                       ![dst(2) + 1] = serial_cell(input, w, h, nch, ks, x, y, 2)],
                   w, h, nch, ks, y, x + 1)

\* the y loop
RECURSIVE serial_rows(_, _, _, _, _, _, _)
serial_rows(input, output_rgb, w, h, nch, ks, y) ==
    IF y >= h
    THEN output_rgb
    ELSE LET row == serial_row(input, output_rgb, w, h, nch, ks, y, 0)
         IN IF row = OutOfBounds
            THEN OutOfBounds
            ELSE serial_rows(input, row, w, h, nch, ks, y + 1)

apply_box_blur_color(input, output_rgb, w, h, nch, ks) ==
    serial_rows(input, output_rgb, w, h, nch, ks, 0)

\* ------------------------------------------------ OpenMP: apply_box_blur_openmp
\* index of the input sample read for output channel c at pixel (nx, ny)
omp_src_idx(w, nch, nx, ny, c) ==
    (ny * w + nx) * nch + (IF nch = 1 THEN 0 ELSE c)

\* mutant: the accumulator is an unsigned char and wraps
RECURSIVE omp_window_byteAccumulator(_, _, _, _, _, _, _, _, _, _, _)
omp_window_byteAccumulator(input, w, h, nch, k_offset, x, y, c, j, sum, count) ==
    IF j = (2 * k_offset + 1) * (2 * k_offset + 1)
    THEN <<sum, count>>
    ELSE LET m == (j \div (2 * k_offset + 1)) - k_offset
             n == (j % (2 * k_offset + 1)) - k_offset
             nx == x + n
             ny == y + m
             src_idx == omp_src_idx(w, nch, nx, ny, c)
         IN IF nx >= 0 /\ nx < w /\ ny >= 0 /\ ny < h
            THEN omp_window_byteAccumulator(input, w, h, nch, k_offset, x, y, c,
                            j + 1, (sum + input[src_idx + 1]) % 256, count + 1)
            ELSE omp_window_byteAccumulator(input, w, h, nch, k_offset, x, y, c,
                            j + 1, sum, count)

RECURSIVE omp_window(_, _, _, _, _, _, _, _, _, _, _)
omp_window(input, w, h, nch, k_offset, x, y, c, j, sum, count) ==
    IF j = (2 * k_offset + 1) * (2 * k_offset + 1)
    THEN <<sum, count>>
    ELSE LET m == (j \div (2 * k_offset + 1)) - k_offset
             n == (j % (2 * k_offset + 1)) - k_offset
             nx == x + n
             ny == y + m
             src_idx == omp_src_idx(w, nch, nx, ny, c)
         IN IF nx >= 0 /\ nx < w /\ ny >= 0 /\ ny < h
            THEN omp_window(input, w, h, nch, k_offset, x, y, c, j + 1,
                            sum + input[src_idx + 1], count + 1)
            ELSE omp_window(input, w, h, nch, k_offset, x, y, c, j + 1,
                            sum, count)

omp_cell(input, w, h, nch, ks, x, y, c) ==
    LET acc == omp_window(input, w, h, nch, ks \div 2, x, y, c, 0, 0, 0)
    IN IF acc[2] = 0 THEN DivisionByZero ELSE ToUChar(acc[1] \div acc[2])

\* iteration it of the collapsed (y, x) loop
omp_iteration(input, output_rgb, w, h, nch, ks, it) ==
    LET y == it \div w
        x == it % w
        dst(c) == (y * w + x) * 3 + c
    IN IF dst(2) >= Len(output_rgb)
       THEN OutOfBounds
       ELSE [output_rgb EXCEPT
                ![dst(0) + 1] = omp_cell(input, w, h, nch, ks, x, y, 0),
                ![dst(1) + 1] = omp_cell(input, w, h, nch, ks, x, y, 1),
                ![dst(2) + 1] = omp_cell(input, w, h, nch, ks, x, y, 2)]

\* iterations it..last-1 as one thread runs them, in order: the first half of
\* the range, then the second half
RECURSIVE omp_iterations(_, _, _, _, _, _, _, _)
omp_iterations(input, output_rgb, w, h, nch, ks, it, last) ==
    IF it >= last
    THEN output_rgb
    ELSE IF last = it + 1
    THEN omp_iteration(input, output_rgb, w, h, nch, ks, it)
    ELSE LET mid == it + ((last - it) \div 2)
             first == omp_iterations(input, output_rgb, w, h, nch, ks, it, mid)
         IN IF first = OutOfBounds
            THEN OutOfBounds
            ELSE omp_iterations(input, first, w, h, nch, ks, mid, last)

\* mutant: every chunk but the first starts one iteration early
omp_chunk_start_oneEarly(niter, nthreads, t) ==
    LET q == niter \div nthreads
        r == niter % nthreads
        s == IF t < r THEN t * (q + 1) ELSE r * (q + 1) + (t - r) * q
    IN IF s > 0 THEN s - 1 ELSE s

\* "parallel for collapse(2)" without a schedule clause: the width*height
\* iterations are split statically into one contiguous chunk per thread,
\* the first (iterations mod threads) threads taking one iteration more
omp_chunk_start(niter, nthreads, t) ==
    LET q == niter \div nthreads
        r == niter % nthreads
    IN IF t < r THEN t * (q + 1) ELSE r * (q + 1) + (t - r) * q

\* mutant: the chunk stops one iteration early
omp_chunk_end_oneShort(niter, nthreads, t) ==
    omp_chunk_start(niter, nthreads, t) +
        (niter \div nthreads) + (IF t < niter % nthreads THEN 1 ELSE 0) - 1

omp_chunk_end(niter, nthreads, t) ==
    omp_chunk_start(niter, nthreads, t) +
        (niter \div nthreads) + (IF t < niter % nthreads THEN 1 ELSE 0)

\* ------------------------------------------------ MPI: apply_box_blur_mpi
\* mutant: with an alpha channel the third output channel is read one
\* sample too far
mpi_src_idx_blueFromAlpha(w, nch, nx, ny, c) ==
    (ny * w + nx) * nch + (IF nch = 1 THEN 0 ELSE IF nch = 4 /\ c = 2 THEN 3 ELSE c)

\* index of the input sample read for output channel c at pixel (nx, ny)
mpi_src_idx(w, nch, nx, ny, c) ==
    (ny * w + nx) * nch + (IF nch = 1 THEN 0 ELSE c)

RECURSIVE mpi_window(_, _, _, _, _, _, _, _, _, _, _)
mpi_window(input, w, h, nch, k_offset, x, y, c, j, sum, count) ==
    IF j = (2 * k_offset + 1) * (2 * k_offset + 1)
    THEN <<sum, count>>
    ELSE LET m == (j \div (2 * k_offset + 1)) - k_offset
             n == (j % (2 * k_offset + 1)) - k_offset
             nx == x + n
             ny == y + m
             src_idx == mpi_src_idx(w, nch, nx, ny, c)
         IN IF nx >= 0 /\ nx < w /\ ny >= 0 /\ ny < h
            THEN mpi_window(input, w, h, nch, k_offset, x, y, c, j + 1,
                            sum + input[src_idx + 1], count + 1)
            ELSE mpi_window(input, w, h, nch, k_offset, x, y, c, j + 1,
                            sum, count)

mpi_cell(input, w, h, nch, ks, x, y, c) ==
    LET acc == mpi_window(input, w, h, nch, ks \div 2, x, y, c, 0, 0, 0)
    IN IF acc[2] = 0 THEN DivisionByZero ELSE ToUChar(acc[1] \div acc[2])

\* mutant: the row is not made relative to the participant's first row
mpi_dst_idx_globalRow(w, x, y, c, first_row) == (y * w + x) * 3 + c

\* destination of cell (x, y, c) in the partial buffer of a participant
mpi_dst_idx(w, x, y, c, first_row) ==
    LET local_y == y - first_row
    IN (local_y * w + x) * 3 + c

\* the x loop of row y
RECURSIVE mpi_row(_, _, _, _, _, _, _, _, _)
mpi_row(input, output_rgb, w, h, nch, ks, first_row, y, x) ==
    IF x >= w
    THEN output_rgb
    ELSE IF mpi_dst_idx(w, x, y, 2, first_row) >= Len(output_rgb)
    THEN OutOfBounds
    ELSE mpi_row(input,
           [output_rgb EXCEPT
               ![mpi_dst_idx(w, x, y, 0, first_row) + 1] =
                    mpi_cell(input, w, h, nch, ks, x, y, 0),
               ![mpi_dst_idx(w, x, y, 1, first_row) + 1] =
                    mpi_cell(input, w, h, nch, ks, x, y, 1),
               ![mpi_dst_idx(w, x, y, 2, first_row) + 1] =
                    mpi_cell(input, w, h, nch, ks, x, y, 2)],
           w, h, nch, ks, first_row, y, x + 1)

\* the y loop over rows y..last_row-1
RECURSIVE mpi_rows(_, _, _, _, _, _, _, _, _)
mpi_rows(input, output_rgb, w, h, nch, ks, first_row, last_row, y) ==
    IF y >= last_row
    THEN output_rgb
    ELSE LET row == mpi_row(input, output_rgb, w, h, nch, ks, first_row, y, 0)
         IN IF row = OutOfBounds
            THEN OutOfBounds
            ELSE mpi_rows(input, row, w, h, nch, ks, first_row, last_row, y + 1)

apply_box_blur_mpi(input, output_rgb, w, h, nch, ks, first_row, last_row) ==
    mpi_rows(input, output_rgb, w, h, nch, ks, first_row, last_row, first_row)

\* the row range a participant computes for itself
\* mutant: the quotient is rounded up
RowsPerProcess_roundedUp(h, sz) == (h + sz - 1) \div sz

RowsPerProcess(h, sz) == h \div sz
StartRow(rank, rpp) == rank * rpp
\* mutant: the last participant does not absorb the remainder
EndRow_noRemainder(rank, sz, h, rpp) == StartRow(rank, rpp) + rpp

\* mutant: every participant but the last is given at least one row
EndRow_atLeastOneRow(rank, sz, h, rpp) ==
    IF rank = sz - 1 THEN h ELSE StartRow(rank, rpp) + Max(rpp, 1)

EndRow(rank, sz, h, rpp) ==
    IF rank = sz - 1 THEN h ELSE StartRow(rank, rpp) + rpp

\* the table root recomputes for the gather
RootIStart(i, rpp) == i * rpp
\* mutant: root forgets that the last participant absorbs the remainder
RootIEnd_noRemainder(i, sz, h, rpp) == RootIStart(i, rpp) + rpp

RootIEnd(i, sz, h, rpp) == IF i = sz - 1 THEN h ELSE RootIStart(i, rpp) + rpp
\* mutant: the receive count forgets the three samples per pixel
RootRecvCount_inPixels(i, sz, w, h, rpp) ==
    (RootIEnd(i, sz, h, rpp) - RootIStart(i, rpp)) * w

RootRecvCount(i, sz, w, h, rpp) ==
    (RootIEnd(i, sz, h, rpp) - RootIStart(i, rpp)) * w * 3
\* mutant: the displacement counts pixels instead of bytes
RootDispl_inPixels(i, w, rpp) == RootIStart(i, rpp) * w

RootDispl(i, w, rpp) == RootIStart(i, rpp) * w * 3

\* MPI_Gatherv at root: the contribution of rank i (msgs[i] = <<count, bytes>>)
\* is stored at recvbuf + dsp[i]; ranks are stored in rank order
RECURSIVE GathervStore(_, _, _, _, _)
GathervStore(recvbuf, msgs, dsp, sz, i) ==
    IF i >= sz
    THEN recvbuf
    ELSE GathervStore(
            [b \in DOMAIN recvbuf |->
                IF b - 1 >= dsp[i] /\ b - 1 < dsp[i] + msgs[i][1]
                THEN msgs[i][2][b - dsp[i]]
                ELSE recvbuf[b]],
            msgs, dsp, sz, i + 1)

\* ------------------------------------------------ OpenCL: box_blur_kernel
\* index of the input sample read for output channel c at pixel (ix, iy)
ocl_src_idx(w, nch, ix, iy, c) ==
    (iy * w + ix) * nch + (IF nch = 1 THEN 0 ELSE c)

RECURSIVE ocl_window(_, _, _, _, _, _, _, _, _, _, _)
ocl_window(input, w, h, nch, k_offset, x, y, c, j, sum, count) ==
    IF j = (2 * k_offset + 1) * (2 * k_offset + 1)
    THEN <<sum, count>>
    ELSE LET m == (j \div (2 * k_offset + 1)) - k_offset
             n == (j % (2 * k_offset + 1)) - k_offset
             ix == x + n
             iy == y + m
             src_idx == ocl_src_idx(w, nch, ix, iy, c)
         IN IF ix >= 0 /\ ix < w /\ iy >= 0 /\ iy < h
            THEN ocl_window(input, w, h, nch, k_offset, x, y, c, j + 1,
                            sum + input[src_idx + 1], count + 1)
            ELSE ocl_window(input, w, h, nch, k_offset, x, y, c, j + 1,
                            sum, count)

ocl_cell(input, w, h, nch, ks, x, y, c) ==
    LET acc == ocl_window(input, w, h, nch, ks \div 2, x, y, c, 0, 0, 0)
    IN IF acc[2] = 0 THEN DivisionByZero ELSE ToUChar(acc[1] \div acc[2])

\* one work-item with global id (x, y)
box_blur_kernel(input, output, w, h, nch, ks, x, y) ==
    IF x >= w \/ y >= h
    THEN output
    ELSE LET dst(c) == (y * w + x) * 3 + c
         IN IF dst(2) >= Len(output)
            THEN OutOfBounds
            ELSE [output EXCEPT
                ![dst(0) + 1] = ocl_cell(input, w, h, nch, ks, x, y, 0),
                ![dst(1) + 1] = ocl_cell(input, w, h, nch, ks, x, y, 1),
                ![dst(2) + 1] = ocl_cell(input, w, h, nch, ks, x, y, 2)]

\* the work-items with global ids g..last-1 of an NDRange of gx x gy (the
\* order in which work-items run is not specified; they store disjoint cells)
RECURSIVE NDRange(_, _, _, _, _, _, _, _, _, _)
NDRange(input, output, w, h, nch, ks, gx, gy, g, last) ==
    IF g >= last
    THEN output
    ELSE IF last = g + 1
    THEN box_blur_kernel(input, output, w, h, nch, ks, g % gx, g \div gx)
    ELSE LET mid == g + ((last - g) \div 2)
             first == NDRange(input, output, w, h, nch, ks, gx, gy, g, mid)
         IN IF first = OutOfBounds
            THEN OutOfBounds
            ELSE NDRange(input, first, w, h, nch, ks, gx, gy, mid, last)

\* clEnqueueNDRangeKernel accepts a local work size only if it divides the
\* global work size in every dimension (CL_INVALID_WORK_GROUP_SIZE otherwise)
EnqueueAccepted(gx, gy, lx, ly) == gx % lx = 0 /\ gy % ly = 0

\* ------------------------------------------------ CUDA: box_blur_kernel
\* index of the input sample read for output channel c at pixel (ix, iy)
cuda_src_idx(w, nch, ix, iy, c) ==
    (iy * w + ix) * nch + (IF nch = 1 THEN 0 ELSE c)

\* the ky, kx loops over the kernelSize x kernelSize window
RECURSIVE cuda_window(_, _, _, _, _, _, _, _, _, _, _)
cuda_window(input, w, h, nch, halfKernelSize, x, y, c, j, sum, count) ==
    IF j = (2 * halfKernelSize + 1) * (2 * halfKernelSize + 1)
    THEN <<sum, count>>
    ELSE LET ky == (j \div (2 * halfKernelSize + 1)) - halfKernelSize
             kx == (j % (2 * halfKernelSize + 1)) - halfKernelSize
             ix == x + kx
             iy == y + ky
             src_idx == cuda_src_idx(w, nch, ix, iy, c)
         IN IF ix >= 0 /\ ix < w /\ iy >= 0 /\ iy < h
            THEN cuda_window(input, w, h, nch, halfKernelSize, x, y, c, j + 1,
                             sum + input[src_idx + 1], count + 1)
            ELSE cuda_window(input, w, h, nch, halfKernelSize, x, y, c, j + 1,
                             sum, count)

cuda_cell(input, w, h, nch, ks, x, y, c) ==
    LET acc == cuda_window(input, w, h, nch, ks \div 2, x, y, c, 0, 0, 0)
    IN IF acc[2] = 0 THEN DivisionByZero ELSE ToUChar(acc[1] \div acc[2])

\* one thread with global coordinates (x, y)
cuda_box_blur_kernel(input, output, w, h, nch, ks, x, y) ==
    IF x < w /\ y < h
    THEN LET dst(c) == (y * w + x) * 3 + c
         IN IF dst(2) >= Len(output)
            THEN OutOfBounds
            ELSE [output EXCEPT
                ![dst(0) + 1] = cuda_cell(input, w, h, nch, ks, x, y, 0),
                ![dst(1) + 1] = cuda_cell(input, w, h, nch, ks, x, y, 1),
                ![dst(2) + 1] = cuda_cell(input, w, h, nch, ks, x, y, 2)]
    ELSE output

\* blocks per grid dimension for n pixels and blocks of b threads
GridDim(n, b) == (n + b - 1) \div b

\* the threads g..last-1 of a launch whose grid is tx threads wide (the order
\* in which threads run is not specified; they store disjoint cells)
RECURSIVE cuda_threads(_, _, _, _, _, _, _, _, _)
cuda_threads(input, output, w, h, nch, ks, tx, g, last) ==
    IF g >= last
    THEN output
    ELSE IF last = g + 1
    THEN cuda_box_blur_kernel(input, output, w, h, nch, ks, g % tx, g \div tx)
    ELSE LET mid == g + ((last - g) \div 2)
             first == cuda_threads(input, output, w, h, nch, ks, tx, g, mid)
         IN IF first = OutOfBounds
            THEN OutOfBounds
            ELSE cuda_threads(input, first, w, h, nch, ks, tx, mid, last)

\* box_blur_kernel<<<gridSize, blockSize>>> as cuda_box_blur launches it
cuda_launch(input, output, w, h, nch, ks, bd) ==
    LET tx == GridDim(w, bd) * bd
        ty == GridDim(h, bd) * bd
    IN cuda_threads(input, output, w, h, nch, ks, tx, 0, tx * ty)

\* ------------------------------------------------------------- Init
NoRanks == [r \in {} |-> 0]
Ranks == 0..(size - 1)

MpiIdle ==
    /\ size = 0
    /\ pc = NoRanks
    /\ m_width = NoRanks /\ m_height = NoRanks /\ m_channels = NoRanks
    /\ rows_per_process = NoRanks /\ start_row = NoRanks
    /\ end_row = NoRanks /\ my_rows = NoRanks
    /\ input_rgb = NoRanks /\ my_output = NoRanks
    /\ output_rgb_root = <<>>
    /\ meta_bcast = <<>> /\ input_bcast = <<>>
    /\ gather_msgs = NoRanks
    /\ recv_counts = <<>> /\ displs = <<>>

\* the image the programs are started on is one of S
Decoded(S) ==
    \E cf \in S :
        /\ width = cf[1][1]
        /\ height = cf[1][2]
        /\ channels = cf[2]
        /\ kernel_size = cf[3]
        /\ input_image = MakeImage(cf[4], cf[1][1], cf[1][2], cf[2])

\* no program has run
ProgramsIdle ==
    /\ written = [b \in Programs |-> NoImage]
    /\ exit_status = [b \in Programs |-> "none"]
    /\ num_threads = 0 /\ omp_output = <<>> /\ omp_done = {}
    /\ MpiIdle
    /\ ocl_pc = "idle" /\ ocl_output = <<>> /\ d_output = <<>>
    /\ cuda_pc = "idle" /\ block_dim = 0
    /\ cuda_output = <<>> /\ cuda_d_output = <<>>
    /\ printed = [b \in Programs |-> {}]
    /\ failed = [b \in Programs |-> {}]
    /\ kernel_called = [b \in Programs |-> FALSE]
    /\ device_requests = <<>>

\* the PGM reader and writer are not in use
PgmIdle ==
    /\ pgm_pc = "idle"
    /\ pgm_image = <<>> /\ pgm_file = <<>> /\ pgm_result = <<>>

\* the state before the first program of the benchmark starts, the image
\* drawn from S: every program is given the input and the output path (the
\* CUDA program its block size as well)
Start(S) ==
    /\ Decoded(S)
    /\ phase = "serial"
    /\ argc = [b \in Programs |-> IF b = "cuda" THEN 4 ELSE 3]
    /\ ProgramsIdle
    /\ PgmIdle

Init == Start(MainConfigs)

\* apply_box_blur_color called with any of the kernel sizes
KernelInit == Start(Configs)

\* program p prints the messages msgs / has the library calls ops fail /
\* calls its blur kernel
Emit(p, msgs) == printed' = [printed EXCEPT ![p] = @ \cup msgs]
Fail(p, ops) == failed' = [failed EXCEPT ![p] = @ \cup ops]
CallKernel(p) == kernel_called' = [kernel_called EXCEPT ![p] = TRUE]

\* ------------------------------------------------------------- serial program
SerialMain ==
    /\ phase = "serial"
    /\ written' = [written EXCEPT !["serial"] =
            apply_box_blur_color(input_image, Malloc(width * height * 3),
                                 width, height, channels, kernel_size)]
    /\ exit_status' = [exit_status EXCEPT !["serial"] = "EXIT_SUCCESS"]
    /\ phase' = "openmp"
    /\ UNCHANGED <<imgVars, ompVars, mpiVars, oclVars, cudaVars, argc, failed, device_requests, pgmVars>>
    /\ CallKernel("serial")
    /\ Emit("serial", {"results"})

\* ------------------------------------------------------------- OpenMP program
\* main up to the parallel region: the team has nt threads
OmpStart(nt) ==
    /\ phase = "openmp"
    /\ num_threads = 0
    /\ num_threads' = nt
    /\ omp_output' = Malloc(width * height * 3)
    /\ omp_done' = {}
    /\ UNCHANGED <<imgVars, runVars, mpiVars, oclVars, cudaVars, envVars>>

\* thread t runs its chunk of the collapsed loop
OmpThread(t) ==
    /\ phase = "openmp"
    /\ t < num_threads
    /\ t \notin omp_done
    /\ omp_output' = omp_iterations(input_image, omp_output, width, height,
                        channels, kernel_size,
                        omp_chunk_start(width * height, num_threads, t),
                        omp_chunk_end(width * height, num_threads, t))
    /\ omp_done' = omp_done \cup {t}
    /\ UNCHANGED <<imgVars, runVars, num_threads, mpiVars, oclVars, cudaVars, argc, printed, failed, device_requests, pgmVars>>
    /\ CallKernel("openmp")

\* mutant: the loop carries "nowait": the call returns without the barrier
OmpJoin_nowait ==
    /\ phase = "openmp"
    /\ num_threads > 0
    /\ written' = [written EXCEPT !["openmp"] = omp_output]
    /\ exit_status' = [exit_status EXCEPT !["openmp"] = "EXIT_SUCCESS"]
    /\ phase' = "mpi"
    /\ num_threads' = 0 /\ omp_output' = <<>> /\ omp_done' = {}
    /\ UNCHANGED <<imgVars, mpiVars, oclVars, cudaVars, argc, failed, kernel_called, device_requests, pgmVars>>
    /\ Emit("openmp", {"results"})

\* the implicit barrier at the end of the parallel region, then the rest of main
OmpJoin ==
    /\ phase = "openmp"
    /\ num_threads > 0
    /\ omp_done = 0..(num_threads - 1)
    /\ written' = [written EXCEPT !["openmp"] = omp_output]
    /\ exit_status' = [exit_status EXCEPT !["openmp"] = "EXIT_SUCCESS"]
    /\ phase' = "mpi"
    /\ num_threads' = 0 /\ omp_output' = <<>> /\ omp_done' = {}
    /\ UNCHANGED <<imgVars, mpiVars, oclVars, cudaVars, argc, failed, kernel_called, device_requests, pgmVars>>
    /\ Emit("openmp", {"results"})

\* ------------------------------------------------------------- MPI program
mpiMeta == <<m_width, m_height, m_channels>>
mpiPart == <<rows_per_process, start_row, end_row, my_rows>>
mpiBufs == <<input_rgb, my_output, output_rgb_root>>
mpiMsgs == <<meta_bcast, input_bcast, gather_msgs, recv_counts, displs>>

AtOrPastBarrier1 ==
    {"barrier1", "bcast_input", "blur", "gather", "barrier2", "write",
     "finalize", "done"}
AtOrPastBarrier2 == {"barrier2", "write", "finalize", "done"}

\* MPI_Abort: every participant is terminated
MpiAbort ==
    /\ pc' = [r \in Ranks |-> "aborted"]
    /\ UNCHANGED <<size, mpiMeta, mpiPart, mpiBufs, mpiMsgs>>

\* mpirun -np sz: every participant is past MPI_Init and the argument check
MpiLaunch(sz) ==
    /\ phase = "mpi"
    /\ argc["mpi"] # 0
    /\ size = 0
    /\ size' = sz
    /\ pc' = [r \in 0..(sz - 1) |->
                IF argc["mpi"] # 3 THEN "usage"
                ELSE IF r = 0 THEN "load" ELSE "bcast_meta"]
    /\ m_width' = [r \in 0..(sz - 1) |-> 0]
    /\ m_height' = [r \in 0..(sz - 1) |-> 0]
    /\ m_channels' = [r \in 0..(sz - 1) |-> 0]
    /\ rows_per_process' = [r \in 0..(sz - 1) |-> Undef]
    /\ start_row' = [r \in 0..(sz - 1) |-> Undef]
    /\ end_row' = [r \in 0..(sz - 1) |-> Undef]
    /\ my_rows' = [r \in 0..(sz - 1) |-> Undef]
    /\ input_rgb' = [r \in 0..(sz - 1) |-> <<>>]
    /\ my_output' = [r \in 0..(sz - 1) |-> <<>>]
    /\ gather_msgs' = [r \in 0..(sz - 1) |-> <<>>]
    /\ UNCHANGED <<output_rgb_root, meta_bcast, input_bcast, recv_counts, displs>>
    /\ UNCHANGED <<imgVars, runVars, ompVars, oclVars, cudaVars, envVars>>

\* wrong argument count: root prints the usage, every participant calls
\* MPI_Finalize and returns EXIT_FAILURE
Usage(r) ==
    /\ phase = "mpi" /\ r < size
    /\ pc[r] = "usage"
    /\ pc' = [pc EXCEPT ![r] = "failed"]
    /\ IF r = 0 THEN Emit("mpi", {"usage"}) ELSE UNCHANGED printed
    /\ UNCHANGED <<size, mpiMeta, mpiPart, mpiBufs, mpiMsgs>>
    /\ UNCHANGED <<imgVars, runVars, ompVars, oclVars, cudaVars>>
    /\ UNCHANGED <<argc, failed, kernel_called, device_requests, pgmVars>>

\* stbi_load returns NULL on root: diagnostic and MPI_Abort
RootLoadFails ==
    /\ phase = "mpi" /\ size > 0
    /\ pc[0] = "load"
    /\ MpiAbort
    /\ Emit("mpi", {"cannot read"})
    /\ Fail("mpi", {"stbi_load"})
    /\ UNCHANGED <<imgVars, runVars, ompVars, oclVars, cudaVars>>
    /\ UNCHANGED <<argc, kernel_called, device_requests, pgmVars>>

\* root loads the image
RootLoad ==
    /\ phase = "mpi" /\ size > 0
    /\ pc[0] = "load"
    /\ m_width' = [m_width EXCEPT ![0] = width]
    /\ m_height' = [m_height EXCEPT ![0] = height]
    /\ m_channels' = [m_channels EXCEPT ![0] = channels]
    /\ input_rgb' = [input_rgb EXCEPT ![0] = input_image]
    /\ pc' = [pc EXCEPT ![0] = "bcast_meta"]
    /\ UNCHANGED <<size, mpiPart, my_output, output_rgb_root, mpiMsgs>>
    /\ UNCHANGED <<imgVars, runVars, ompVars, oclVars, cudaVars, envVars>>

\* the three MPI_Bcast of width, height and channels
BcastMeta(r) ==
    /\ phase = "mpi" /\ r < size
    /\ pc[r] = "bcast_meta"
    /\ IF r = 0
       THEN /\ meta_bcast' = <<m_width[0], m_height[0], m_channels[0]>>
            /\ UNCHANGED mpiMeta
       ELSE /\ meta_bcast # <<>>
            /\ m_width' = [m_width EXCEPT ![r] = meta_bcast[1]]
            /\ m_height' = [m_height EXCEPT ![r] = meta_bcast[2]]
            /\ m_channels' = [m_channels EXCEPT ![r] = meta_bcast[3]]
            /\ UNCHANGED meta_bcast
    /\ pc' = [pc EXCEPT ![r] = "partition"]
    /\ UNCHANGED <<size, mpiPart, mpiBufs, input_bcast, gather_msgs,
                   recv_counts, displs>>
    /\ UNCHANGED <<imgVars, runVars, ompVars, oclVars, cudaVars, envVars>>

\* rows_per_process, start_row, end_row, my_rows
Partition(r) ==
    /\ phase = "mpi" /\ r < size
    /\ pc[r] = "partition"
    /\ LET rpp == RowsPerProcess(m_height[r], size)
           s == StartRow(r, rpp)
           e == EndRow(r, size, m_height[r], rpp)
       IN /\ rows_per_process' = [rows_per_process EXCEPT ![r] = rpp]
          /\ start_row' = [start_row EXCEPT ![r] = s]
          /\ end_row' = [end_row EXCEPT ![r] = e]
          /\ my_rows' = [my_rows EXCEPT ![r] = e - s]
    /\ pc' = [pc EXCEPT ![r] = "alloc"]
    /\ UNCHANGED <<size, mpiMeta, mpiBufs, mpiMsgs>>
    /\ UNCHANGED <<imgVars, runVars, ompVars, oclVars, cudaVars, envVars>>

\* the three allocations, then the participant enters the first barrier.
\* malloc(0) returns either a null pointer or a pointer to no bytes.
Alloc(r) ==
    /\ phase = "mpi" /\ r < size
    /\ pc[r] = "alloc"
    /\ LET n == m_width[r] * my_rows[r] * 3
       IN \E null0 \in BOOLEAN :
            IF n = 0 /\ null0
            THEN /\ MpiAbort
                 /\ Emit("mpi", {"allocation failed"})
                 /\ Fail("mpi", {"malloc"})
            ELSE /\ UNCHANGED <<printed, failed>>
                 /\ input_rgb' = [input_rgb EXCEPT ![r] =
                        IF r # 0
                        THEN Malloc(m_width[r] * m_height[r] * m_channels[r])
                        ELSE @]
                 /\ output_rgb_root' =
                        IF r = 0
                        THEN Malloc(m_width[r] * m_height[r] * 3)
                        ELSE output_rgb_root
                 /\ my_output' = [my_output EXCEPT ![r] = Malloc(n)]
                 /\ pc' = [pc EXCEPT ![r] = "barrier1"]
                 /\ UNCHANGED <<size, mpiMeta, mpiPart, mpiMsgs>>
    /\ UNCHANGED <<imgVars, runVars, ompVars, oclVars, cudaVars>>
    /\ UNCHANGED <<argc, kernel_called, device_requests, pgmVars>>

\* one of the allocations fails for lack of memory: diagnostic and MPI_Abort
AllocFails(r) ==
    /\ phase = "mpi" /\ r < size
    /\ pc[r] = "alloc"
    /\ MpiAbort
    /\ Emit("mpi", {"allocation failed"})
    /\ Fail("mpi", {"malloc"})
    /\ UNCHANGED <<imgVars, runVars, ompVars, oclVars, cudaVars>>
    /\ UNCHANGED <<argc, kernel_called, device_requests, pgmVars>>

\* mutant: the input broadcast is left out
Barrier1_skipsBroadcast(r) ==
    /\ phase = "mpi" /\ r < size
    /\ pc[r] = "barrier1"
    /\ \A q \in Ranks : pc[q] \in AtOrPastBarrier1
    /\ pc' = [pc EXCEPT ![r] = "blur"]
    /\ UNCHANGED <<size, mpiMeta, mpiPart, mpiBufs, mpiMsgs>>
    /\ UNCHANGED <<imgVars, runVars, ompVars, oclVars, cudaVars, envVars>>

\* return from the first MPI_Barrier
Barrier1(r) ==
    /\ phase = "mpi" /\ r < size
    /\ pc[r] = "barrier1"
    /\ \A q \in Ranks : pc[q] \in AtOrPastBarrier1
    /\ pc' = [pc EXCEPT ![r] = "bcast_input"]
    /\ UNCHANGED <<size, mpiMeta, mpiPart, mpiBufs, mpiMsgs>>
    /\ UNCHANGED <<imgVars, runVars, ompVars, oclVars, cudaVars, envVars>>

\* MPI_Bcast of the whole input buffer
BcastInput(r) ==
    /\ phase = "mpi" /\ r < size
    /\ pc[r] = "bcast_input"
    /\ IF r = 0
       THEN /\ input_bcast' = <<input_rgb[0]>>
            /\ UNCHANGED input_rgb
       ELSE /\ input_bcast # <<>>
            /\ input_rgb' = [input_rgb EXCEPT ![r] =
                    [i \in 1..(m_width[r] * m_height[r] * m_channels[r]) |->
                        input_bcast[1][i]]]
            /\ UNCHANGED input_bcast
    /\ pc' = [pc EXCEPT ![r] = "blur"]
    /\ UNCHANGED <<size, mpiMeta, mpiPart, my_output, output_rgb_root,
                   meta_bcast, gather_msgs, recv_counts, displs>>
    /\ UNCHANGED <<imgVars, runVars, ompVars, oclVars, cudaVars, envVars>>

\* mutant: the blur works in place and clears the rows it has read
Blur_clearsInput(r) ==
    /\ phase = "mpi" /\ r < size
    /\ pc[r] = "blur"
    /\ my_output' = [my_output EXCEPT ![r] =
            apply_box_blur_mpi(input_rgb[r], my_output[r], m_width[r],
                               m_height[r], m_channels[r], kernel_size,
                               start_row[r], end_row[r])]
    /\ input_rgb' = [input_rgb EXCEPT ![r] = [i \in DOMAIN @ |-> 0]]
    /\ pc' = [pc EXCEPT ![r] = "gather"]
    /\ UNCHANGED <<size, mpiMeta, mpiPart, output_rgb_root, mpiMsgs>>
    /\ UNCHANGED <<imgVars, runVars, ompVars, oclVars, cudaVars, argc, printed, failed, device_requests, pgmVars>>
    /\ CallKernel("mpi")

\* the participant blurs its own rows
Blur(r) ==
    /\ phase = "mpi" /\ r < size
    /\ pc[r] = "blur"
    /\ my_output' = [my_output EXCEPT ![r] =
            apply_box_blur_mpi(input_rgb[r], my_output[r], m_width[r],
                               m_height[r], m_channels[r], kernel_size,
                               start_row[r], end_row[r])]
    /\ pc' = [pc EXCEPT ![r] = "gather"]
    /\ UNCHANGED <<size, mpiMeta, mpiPart, input_rgb, output_rgb_root, mpiMsgs>>
    /\ UNCHANGED <<imgVars, runVars, ompVars, oclVars, cudaVars, argc, printed, failed, device_requests, pgmVars>>
    /\ CallKernel("mpi")

\* what participant r passes to MPI_Gatherv: <<sendcount, bytes>>
GatherContribution(r) ==
    <<my_rows[r] * m_width[r] * 3,
      SubSeq(my_output[r], 1, my_rows[r] * m_width[r] * 3)>>

\* mutant: a participant without rows leaves the gather out
GatherSend_emptyRangeSkips(r) ==
    /\ phase = "mpi" /\ r < size /\ r # 0
    /\ pc[r] = "gather"
    /\ gather_msgs' = [gather_msgs EXCEPT ![r] =
            IF my_rows[r] = 0 THEN @ ELSE GatherContribution(r)]
    /\ pc' = [pc EXCEPT ![r] = "barrier2"]
    /\ UNCHANGED <<size, mpiMeta, mpiPart, mpiBufs, meta_bcast, input_bcast,
                   recv_counts, displs>>
    /\ UNCHANGED <<imgVars, runVars, ompVars, oclVars, cudaVars, envVars>>

\* MPI_Gatherv on a participant other than root
GatherSend(r) ==
    /\ phase = "mpi" /\ r < size /\ r # 0
    /\ pc[r] = "gather"
    /\ gather_msgs' = [gather_msgs EXCEPT ![r] = GatherContribution(r)]
    /\ pc' = [pc EXCEPT ![r] = "barrier2"]
    /\ UNCHANGED <<size, mpiMeta, mpiPart, mpiBufs, meta_bcast, input_bcast,
                   recv_counts, displs>>
    /\ UNCHANGED <<imgVars, runVars, ompVars, oclVars, cudaVars, envVars>>

\* root fills recv_counts and displs, then MPI_Gatherv completes at root once
\* every contribution has arrived; a contribution longer than its receive
\* count is a truncation error, which is fatal
GatherRoot ==
    /\ phase = "mpi" /\ size > 0
    /\ pc[0] = "gather"
    /\ \A r \in Ranks \ {0} : gather_msgs[r] # <<>>
    /\ LET rc == [i \in Ranks |-> RootRecvCount(i, size, m_width[0],
                                        m_height[0], rows_per_process[0])]
           ds == [i \in Ranks |-> RootDispl(i, m_width[0], rows_per_process[0])]
           msgs == [gather_msgs EXCEPT ![0] = GatherContribution(0)]
       IN /\ recv_counts' = rc
          /\ displs' = ds
          /\ gather_msgs' = msgs
          /\ IF \E i \in Ranks : msgs[i][1] > rc[i]
             THEN /\ pc' = [r \in Ranks |-> "aborted"]
                  /\ Emit("mpi", {"MPI error"})
                  /\ Fail("mpi", {"MPI_Gatherv"})
                  /\ UNCHANGED output_rgb_root
             ELSE /\ output_rgb_root' =
                        GathervStore(output_rgb_root, msgs, ds, size, 0)
                  /\ pc' = [pc EXCEPT ![0] = "barrier2"]
                  /\ UNCHANGED <<printed, failed>>
          /\ UNCHANGED <<size, mpiMeta, mpiPart, input_rgb, my_output,
                         meta_bcast, input_bcast>>
    /\ UNCHANGED <<imgVars, runVars, ompVars, oclVars, cudaVars>>
    /\ UNCHANGED <<argc, kernel_called, device_requests, pgmVars>>

\* mutant: the second barrier does not wait for the other participants
Barrier2_returnsEarly(r) ==
    /\ phase = "mpi" /\ r < size
    /\ pc[r] = "barrier2"
    /\ pc' = [pc EXCEPT ![r] = IF r = 0 THEN "write" ELSE "finalize"]
    /\ UNCHANGED <<size, mpiMeta, mpiPart, mpiBufs, mpiMsgs>>
    /\ UNCHANGED <<imgVars, runVars, ompVars, oclVars, cudaVars, envVars>>

\* return from the second MPI_Barrier
Barrier2(r) ==
    /\ phase = "mpi" /\ r < size
    /\ pc[r] = "barrier2"
    /\ \A q \in Ranks : pc[q] \in AtOrPastBarrier2
    /\ pc' = [pc EXCEPT ![r] = IF r = 0 THEN "write" ELSE "finalize"]
    /\ UNCHANGED <<size, mpiMeta, mpiPart, mpiBufs, mpiMsgs>>
    /\ UNCHANGED <<imgVars, runVars, ompVars, oclVars, cudaVars, envVars>>

\* root hands the assembled buffer to the image writer
RootWrite ==
    /\ phase = "mpi" /\ size > 0
    /\ pc[0] = "write"
    /\ written' = [written EXCEPT !["mpi"] = output_rgb_root]
    /\ pc' = [pc EXCEPT ![0] = "finalize"]
    /\ UNCHANGED <<size, mpiMeta, mpiPart, mpiBufs, mpiMsgs>>
    /\ UNCHANGED <<imgVars, phase, exit_status, ompVars, oclVars, cudaVars, argc, failed, kernel_called, device_requests, pgmVars>>
    /\ Emit("mpi", {"results"})

\* the image writer returns 0: root prints "Error writing output" and goes on
RootWriteFails ==
    /\ phase = "mpi" /\ size > 0
    /\ pc[0] = "write"
    /\ pc' = [pc EXCEPT ![0] = "finalize"]
    /\ Emit("mpi", {"error writing"})
    /\ Fail("mpi", {"stbi_write"})
    /\ UNCHANGED <<size, mpiMeta, mpiPart, mpiBufs, mpiMsgs>>
    /\ UNCHANGED <<imgVars, runVars, ompVars, oclVars, cudaVars>>
    /\ UNCHANGED <<argc, kernel_called, device_requests, pgmVars>>

\* free, MPI_Finalize, return
Finalize(r) ==
    /\ phase = "mpi" /\ r < size
    /\ pc[r] = "finalize"
    /\ pc' = [pc EXCEPT ![r] = "done"]
    /\ UNCHANGED <<size, mpiMeta, mpiPart, mpiBufs, mpiMsgs>>
    /\ UNCHANGED <<imgVars, runVars, ompVars, oclVars, cudaVars, envVars>>

\* the job is over: every participant returned (EXIT_SUCCESS, or EXIT_FAILURE
\* after the usage message), or the job was aborted
MpiExit ==
    /\ phase = "mpi" /\ size > 0
    /\ \E st \in {"done", "failed", "aborted"} : \A r \in Ranks : pc[r] = st
    /\ exit_status' = [exit_status EXCEPT !["mpi"] =
            IF \A r \in Ranks : pc[r] = "done"
            THEN "EXIT_SUCCESS" ELSE "EXIT_FAILURE"]
    /\ phase' = "opencl"
    /\ size' = 0
    /\ pc' = NoRanks
    /\ m_width' = NoRanks /\ m_height' = NoRanks /\ m_channels' = NoRanks
    /\ rows_per_process' = NoRanks /\ start_row' = NoRanks
    /\ end_row' = NoRanks /\ my_rows' = NoRanks
    /\ input_rgb' = NoRanks /\ my_output' = NoRanks
    /\ output_rgb_root' = <<>>
    /\ meta_bcast' = <<>> /\ input_bcast' = <<>>
    /\ gather_msgs' = NoRanks
    /\ recv_counts' = <<>> /\ displs' = <<>>
    /\ UNCHANGED <<imgVars, written, ompVars, oclVars, cudaVars, envVars>>

\* ------------------------------------------------------------- OpenCL program
\* main up to the kernel launch: image loaded, host output allocated, device
\* set up, input copied to the device
OclStart ==
    /\ phase = "opencl"
    /\ ocl_pc = "idle"
    /\ ocl_output' = Malloc(width * height * 3)
    /\ d_output' = Malloc(width * height * 3)
    /\ ocl_pc' = "launch"
    /\ UNCHANGED <<imgVars, runVars, ompVars, mpiVars, cudaVars, envVars>>

\* clEnqueueNDRangeKernel with global {width, height} and local {16, 16},
\* check_error, clWaitForEvents
OclLaunch ==
    /\ phase = "opencl"
    /\ ocl_pc = "launch"
    /\ IF EnqueueAccepted(width, height, LOCAL_WORK_SIZE, LOCAL_WORK_SIZE)
       THEN /\ d_output' = NDRange(input_image, d_output, width, height,
                                   channels, kernel_size, width, height,
                                   0, width * height)
            /\ ocl_pc' = "read"
            /\ CallKernel("opencl")
            /\ UNCHANGED <<ocl_output, runVars, printed, failed>>
       ELSE /\ exit_status' = [exit_status EXCEPT !["opencl"] = "EXIT_FAILURE"]
            /\ phase' = "cuda"
            /\ ocl_pc' = "idle" /\ ocl_output' = <<>> /\ d_output' = <<>>
            /\ Emit("opencl", {"OpenCL error"})
            /\ Fail("opencl", {"clEnqueueNDRangeKernel"})
            /\ UNCHANGED <<written, kernel_called>>
    /\ UNCHANGED <<imgVars, ompVars, mpiVars, cudaVars>>
    /\ UNCHANGED <<argc, device_requests, pgmVars>>

\* clEnqueueReadBuffer: device output copied to the host buffer
OclRead ==
    /\ phase = "opencl"
    /\ ocl_pc = "read"
    /\ ocl_output' = d_output
    /\ ocl_pc' = "write"
    /\ UNCHANGED d_output
    /\ UNCHANGED <<imgVars, runVars, ompVars, mpiVars, cudaVars, envVars>>

\* main hands the buffer to the image writer and returns
OclWrite ==
    /\ phase = "opencl"
    /\ ocl_pc = "write"
    /\ written' = [written EXCEPT !["opencl"] = ocl_output]
    /\ exit_status' = [exit_status EXCEPT !["opencl"] = "EXIT_SUCCESS"]
    /\ phase' = "cuda"
    /\ ocl_pc' = "idle" /\ ocl_output' = <<>> /\ d_output' = <<>>
    /\ UNCHANGED <<imgVars, ompVars, mpiVars, cudaVars, argc, failed, kernel_called, device_requests, pgmVars>>
    /\ Emit("opencl", {"results"})

\* ------------------------------------------------------------- CUDA program
\* main up to the kernel launch: block size bd, image loaded, host output
\* allocated, device buffers allocated, input copied to the device
CudaStart(bd) ==
    /\ phase = "cuda"
    /\ cuda_pc = "idle"
    /\ block_dim' = bd
    /\ cuda_output' = Malloc(width * height * 3)
    /\ cuda_d_output' = Malloc(width * height * 3)
    /\ cuda_pc' = "launch"
    /\ UNCHANGED <<imgVars, runVars, ompVars, mpiVars, oclVars, envVars>>

\* the kernel launch of cuda_box_blur
CudaLaunch ==
    /\ phase = "cuda"
    /\ cuda_pc = "launch"
    /\ cuda_d_output' = cuda_launch(input_image, cuda_d_output, width, height,
                                    channels, kernel_size, block_dim)
    /\ cuda_pc' = "copy"
    /\ UNCHANGED <<block_dim, cuda_output>>
    /\ UNCHANGED <<imgVars, runVars, ompVars, mpiVars, oclVars, argc, printed, failed, device_requests, pgmVars>>
    /\ CallKernel("cuda")

\* cudaMemcpy device to host, after the kernel has completed
CudaCopy ==
    /\ phase = "cuda"
    /\ cuda_pc = "copy"
    /\ cuda_output' = cuda_d_output
    /\ cuda_pc' = "write"
    /\ UNCHANGED <<block_dim, cuda_d_output>>
    /\ UNCHANGED <<imgVars, runVars, ompVars, mpiVars, oclVars, envVars>>

\* main hands the buffer to the image writer and returns
CudaWrite ==
    /\ phase = "cuda"
    /\ cuda_pc = "write"
    /\ written' = [written EXCEPT !["cuda"] = cuda_output]
    /\ exit_status' = [exit_status EXCEPT !["cuda"] = "EXIT_SUCCESS"]
    /\ phase' = "end"
    /\ cuda_pc' = "idle" /\ block_dim' = 0
    /\ cuda_output' = <<>> /\ cuda_d_output' = <<>>
    /\ UNCHANGED <<imgVars, ompVars, mpiVars, oclVars, argc, failed, kernel_called, device_requests, pgmVars>>
    /\ Emit("cuda", {"results"})

\* ------------------------------------------------ the mains, failures included
\* One program is started, on its own, with any argument count; the image
\* may fail to load, an allocation, a library call or the image writer may
\* fail.  A failure parameter of a step that is not reached has no effect.

\* how a main ends
Exit(p, status) ==
    /\ exit_status' = [exit_status EXCEPT ![p] = status]
    /\ phase' = "end"

\* the serial main.  With a channel count other than 1, 3 and 4 the kernel
\* reads the byte after the input buffer (src_idx = width * height * 2 for
\* the last pixel of a 2-channel image): the read yields the byte "beyond"
\* or, with segv, the process is killed.
SerialRun(load_ok, alloc_ok, write_ok, beyond, segv) ==
    /\ phase = "serial"
    /\ argc["serial"] # 0
    /\ exit_status["serial"] = "none"
    /\ IF argc["serial"] # 3
       THEN /\ Emit("serial", {"usage"})
            /\ Exit("serial", "EXIT_FAILURE")
            /\ UNCHANGED <<written, failed, kernel_called>>
       ELSE IF ~load_ok
       THEN /\ Emit("serial", {"cannot read"})
            /\ Fail("serial", {"stbi_load"})
            /\ Exit("serial", "EXIT_FAILURE")
            /\ UNCHANGED <<written, kernel_called>>
       ELSE IF ~alloc_ok
       THEN /\ Emit("serial", {"allocation failed"})
            /\ Fail("serial", {"malloc"})
            /\ Exit("serial", "EXIT_FAILURE")
            /\ UNCHANGED <<written, kernel_called>>
       ELSE IF channels \notin ChannelCounts /\ segv
       THEN /\ CallKernel("serial")
            /\ Exit("serial", "SIGSEGV")
            /\ UNCHANGED <<written, printed, failed>>
       ELSE LET input == IF channels \in ChannelCounts
                         THEN input_image
                         ELSE input_image \o <<beyond>>
                output_rgb == apply_box_blur_color(input,
                                  Malloc(width * height * 3), width, height,
                                  channels, kernel_size)
            IN /\ CallKernel("serial")
               /\ IF write_ok
                  THEN /\ written' = [written EXCEPT !["serial"] = output_rgb]
                       /\ Emit("serial", {"results"})
                       /\ Exit("serial", "EXIT_SUCCESS")
                       /\ UNCHANGED failed
                  ELSE /\ Emit("serial", {"error writing"})
                       /\ Fail("serial", {"stbi_write"})
                       /\ Exit("serial", "EXIT_FAILURE")
                       /\ UNCHANGED written
    /\ UNCHANGED <<imgVars, ompVars, mpiVars, oclVars, cudaVars>>
    /\ UNCHANGED <<argc, device_requests, pgmVars>>

\* the chunks of threads t..nthreads-1 of the team, one after the other (the
\* chunks store disjoint cells)
RECURSIVE omp_team(_, _, _, _, _, _, _, _)
omp_team(input, output_rgb, w, h, nch, ks, nthreads, t) ==
    IF t >= nthreads
    THEN output_rgb
    ELSE omp_team(input,
                  omp_iterations(input, output_rgb, w, h, nch, ks,
                                 omp_chunk_start(w * h, nthreads, t),
                                 omp_chunk_end(w * h, nthreads, t)),
                  w, h, nch, ks, nthreads, t + 1)

\* the OpenMP main with a team of nt threads (omp_get_max_threads)
OmpRun(nt, load_ok, alloc_ok, write_ok) ==
    /\ phase = "openmp"
    /\ argc["openmp"] # 0
    /\ exit_status["openmp"] = "none"
    /\ IF argc["openmp"] # 3
       THEN /\ Emit("openmp", {"usage"})
            /\ Exit("openmp", "EXIT_FAILURE")
            /\ UNCHANGED <<written, failed, kernel_called>>
       ELSE IF ~load_ok
       THEN /\ Emit("openmp", {"cannot read"})
            /\ Fail("openmp", {"stbi_load"})
            /\ Exit("openmp", "EXIT_FAILURE")
            /\ UNCHANGED <<written, kernel_called>>
       ELSE IF ~alloc_ok
       THEN /\ Emit("openmp", {"allocation failed"})
            /\ Fail("openmp", {"malloc"})
            /\ Exit("openmp", "EXIT_FAILURE")
            /\ UNCHANGED <<written, kernel_called>>
       ELSE LET output_rgb == omp_team(input_image, Malloc(width * height * 3),
                                       width, height, channels, kernel_size,
                                       nt, 0)
            IN /\ CallKernel("openmp")
               /\ IF write_ok
                  THEN /\ written' = [written EXCEPT !["openmp"] = output_rgb]
                       /\ Emit("openmp", {"results"})
                       /\ Exit("openmp", "EXIT_SUCCESS")
                       /\ UNCHANGED failed
                  ELSE /\ Emit("openmp", {"error writing"})
                       /\ Fail("openmp", {"stbi_write"})
                       /\ Exit("openmp", "EXIT_FAILURE")
                       /\ UNCHANGED written
    /\ UNCHANGED <<imgVars, ompVars, mpiVars, oclVars, cudaVars>>
    /\ UNCHANGED <<argc, device_requests, pgmVars>>

\* the OpenCL calls that end the program through check_error when they fail,
\* in the order apply_box_blur_opencl makes them; the clGetDeviceIDs listed
\* is the second one, for CL_DEVICE_TYPE_CPU
OclCalls ==
    <<"clGetPlatformIDs", "clGetDeviceIDs(CPU)", "clCreateContext",
      "clCreateCommandQueue", "clCreateProgramWithSource", "clBuildProgram",
      "clCreateKernel", "clCreateBuffer(input)", "clCreateBuffer(output)",
      "clEnqueueWriteBuffer", "clSetKernelArg", "clEnqueueNDRangeKernel",
      "clEnqueueReadBuffer">>
OclNoCall == 0
OclPlatformCall == 1
OclFallbackCall == 2
OclEnqueueCall == 12
OclReadCall == 13

\* mutant: a failed request for a CPU device is not checked
OclFatalCall_fallbackUnchecked(gpu, bad, accepted) ==
    LET reached == IF bad = OclFallbackCall THEN OclNoCall ELSE bad
    IN IF reached \in OclPlatformCall..(OclEnqueueCall - 1)
       THEN reached
       ELSE IF ~accepted THEN OclEnqueueCall ELSE reached

\* the call check_error ends the program on (OclNoCall: none), when a GPU
\* device is or is not found, the platform makes call number bad fail and
\* the launch is or is not accepted
OclFatalCall(gpu, bad, accepted) ==
    LET reached == IF bad = OclFallbackCall /\ gpu THEN OclNoCall ELSE bad
    IN IF reached \in OclPlatformCall..(OclEnqueueCall - 1)
       THEN reached
       ELSE IF ~accepted THEN OclEnqueueCall ELSE reached

\* the OpenCL main
OclRun(gpu, bad, load_ok, alloc_ok, write_ok) ==
    /\ phase = "opencl"
    /\ argc["opencl"] # 0
    /\ exit_status["opencl"] = "none"
    /\ IF argc["opencl"] # 3
       THEN /\ Emit("opencl", {"usage"})
            /\ Exit("opencl", "EXIT_FAILURE")
            /\ UNCHANGED <<written, failed, kernel_called, device_requests>>
       ELSE IF ~load_ok
       THEN /\ Emit("opencl", {"cannot read"})
            /\ Fail("opencl", {"stbi_load"})
            /\ Exit("opencl", "EXIT_FAILURE")
            /\ UNCHANGED <<written, kernel_called, device_requests>>
       ELSE IF ~alloc_ok
       THEN /\ Emit("opencl", {"allocation failed"})
            /\ Fail("opencl", {"malloc"})
            /\ Exit("opencl", "EXIT_FAILURE")
            /\ UNCHANGED <<written, kernel_called, device_requests>>
       ELSE LET accepted == EnqueueAccepted(width, height, LOCAL_WORK_SIZE,
                                            LOCAL_WORK_SIZE)
                fatal == OclFatalCall(gpu, bad, accepted)
                last == IF fatal = OclNoCall THEN Len(OclCalls) ELSE fatal
                asked == fatal # OclPlatformCall
                nogpu == asked /\ ~gpu
                launched == fatal \in {OclNoCall, OclReadCall}
                \* the calls that returned an error before the program ended
                errors ==
                    (IF nogpu THEN {"clGetDeviceIDs(GPU)"} ELSE {})
                    \cup (IF /\ bad \in 1..last
                              /\ (bad = OclFallbackCall => ~gpu)
                           THEN {OclCalls[bad]} ELSE {})
                    \cup (IF ~accepted /\ OclEnqueueCall <= last
                           THEN {OclCalls[OclEnqueueCall]} ELSE {})
                output_rgb == NDRange(input_image, Malloc(width * height * 3),
                                      width, height, channels, kernel_size,
                                      width, height, 0, width * height)
            IN /\ device_requests' =
                      IF ~asked THEN <<>>
                      ELSE IF gpu THEN <<"GPU">> ELSE <<"GPU", "CPU">>
               /\ kernel_called' = [kernel_called EXCEPT !["opencl"] = launched]
               /\ IF fatal # OclNoCall
                  THEN /\ Emit("opencl", {"OpenCL error"}
                                \cup (IF nogpu THEN {"No GPU found"} ELSE {}))
                       /\ Fail("opencl", errors)
                       /\ Exit("opencl", "EXIT_FAILURE")
                       /\ UNCHANGED written
                  ELSE IF write_ok
                  THEN /\ written' = [written EXCEPT !["opencl"] = output_rgb]
                       /\ Emit("opencl", {"results"}
                                \cup (IF nogpu THEN {"No GPU found"} ELSE {}))
                       /\ Fail("opencl", errors)
                       /\ Exit("opencl", "EXIT_SUCCESS")
                  ELSE /\ Emit("opencl", {"error writing"}
                                \cup (IF nogpu THEN {"No GPU found"} ELSE {}))
                       /\ Fail("opencl", errors \cup {"stbi_write"})
                       /\ Exit("opencl", "EXIT_FAILURE")
                       /\ UNCHANGED written
    /\ UNCHANGED <<imgVars, ompVars, mpiVars, oclVars, cudaVars>>
    /\ UNCHANGED <<argc, pgmVars>>

\* the CUDA runtime calls of cuda_box_blur, in order; none is checked
CudaCalls ==
    <<"cudaMalloc(input)", "cudaMalloc(output)", "cudaMemcpy(HostToDevice)",
      "box_blur_kernel<<<>>>", "cudaMemcpy(DeviceToHost)">>
\* atoi(argv[3]) of the runs with a block size argument
BlockArgs == {0, 2, 16, 33}
DEFAULT_BLOCK_DIM == 16
MAX_BLOCK_DIM == 32

\* what the host output buffer holds after cuda_box_blur when call number
\* bad fails (0: none): no return value is looked at, so after a failure the
\* buffer is handed on with indeterminate bytes
cuda_box_blur(input, w, h, nch, ks, bd, bad) ==
    IF bad = 0
    THEN cuda_launch(input, Malloc(w * h * 3), w, h, nch, ks, bd)
    ELSE Malloc(w * h * 3)

\* the CUDA main, started with block size argument arg when argc is 4
CudaRun(arg, bad, load_ok, alloc_ok, write_ok) ==
    /\ phase = "cuda"
    /\ argc["cuda"] # 0
    /\ exit_status["cuda"] = "none"
    /\ LET bd == IF argc["cuda"] = 4 THEN arg ELSE DEFAULT_BLOCK_DIM
       IN IF argc["cuda"] < 3 \/ argc["cuda"] > 4
          THEN /\ Emit("cuda", {"usage"})
               /\ Exit("cuda", "EXIT_FAILURE")
               /\ UNCHANGED <<written, failed, kernel_called>>
          ELSE IF bd < 1 \/ bd > MAX_BLOCK_DIM
          THEN /\ Emit("cuda", {"block size"})
               /\ Exit("cuda", "EXIT_FAILURE")
               /\ UNCHANGED <<written, failed, kernel_called>>
          ELSE IF ~load_ok
          THEN /\ Emit("cuda", {"cannot read"})
               /\ Fail("cuda", {"stbi_load"})
               /\ Exit("cuda", "EXIT_FAILURE")
               /\ UNCHANGED <<written, kernel_called>>
          ELSE IF ~alloc_ok
          THEN /\ Emit("cuda", {"allocation failed"})
               /\ Fail("cuda", {"malloc"})
               /\ Exit("cuda", "EXIT_FAILURE")
               /\ UNCHANGED <<written, kernel_called>>
          ELSE LET output_rgb == cuda_box_blur(input_image, width, height,
                                     channels, kernel_size, bd, bad)
                   device == IF bad = 0 THEN {} ELSE {CudaCalls[bad]}
               IN /\ CallKernel("cuda")
                  /\ IF write_ok
                     THEN /\ written' = [written EXCEPT !["cuda"] = output_rgb]
                          /\ Emit("cuda", {"results"})
                          /\ Fail("cuda", device)
                          /\ Exit("cuda", "EXIT_SUCCESS")
                     ELSE /\ Emit("cuda", {"error writing"})
                          /\ Fail("cuda", device \cup {"stbi_write"})
                          /\ Exit("cuda", "EXIT_FAILURE")
                          /\ UNCHANGED written
    /\ UNCHANGED <<imgVars, ompVars, mpiVars, oclVars, cudaVars>>
    /\ UNCHANGED <<argc, device_requests, pgmVars>>

\* argument counts the programs are started with (argv[0] included)
ArgCounts == {2, 3, 4}
\* the bytes that may lie after the input buffer
BeyondBytes == {0, 255}
\* 2: the decoder's grey + alpha layout
DecodedChannelCounts == {1, 2, 3, 4}

\* the images program p is run on: 1x1 and 2x2, and 16x16 for the OpenCL
\* program; the 2-channel image is given to the serial program
FaultConfigs(p) ==
    {<<d, nch, KERNEL_SIZE, "ramp">> :
        d \in {<<1, 1>>, <<2, 2>>},
        nch \in IF p = "serial" THEN DecodedChannelCounts ELSE {1, 3}}
    \cup (IF p = "opencl"
          THEN {<<<<LOCAL_WORK_SIZE, LOCAL_WORK_SIZE>>, 1, KERNEL_SIZE, "ramp">>}
          ELSE {})

FaultInit ==
    /\ \E p \in Programs, a \in ArgCounts :
          /\ phase = p
          /\ argc = [b \in Programs |-> IF b = p THEN a ELSE 0]
          /\ Decoded(FaultConfigs(p))
    /\ ProgramsIdle
    /\ PgmIdle

FaultNext ==
    \/ \E load_ok, alloc_ok, write_ok, segv \in BOOLEAN :
          \E beyond \in BeyondBytes :
              SerialRun(load_ok, alloc_ok, write_ok, beyond, segv)
    \/ \E nt \in 1..MaxThreads : \E load_ok, alloc_ok, write_ok \in BOOLEAN :
          OmpRun(nt, load_ok, alloc_ok, write_ok)
    \/ \E sz \in 1..MaxSize : MpiLaunch(sz)
    \/ \E r \in 0..(MaxSize - 1) : Usage(r)
    \/ RootLoad
    \/ RootLoadFails
    \/ \E r \in 0..(MaxSize - 1) : BcastMeta(r)
    \/ \E r \in 0..(MaxSize - 1) : Partition(r)
    \/ \E r \in 0..(MaxSize - 1) : Alloc(r)
    \/ \E r \in 0..(MaxSize - 1) : AllocFails(r)
    \/ \E r \in 0..(MaxSize - 1) : Barrier1(r)
    \/ \E r \in 0..(MaxSize - 1) : BcastInput(r)
    \/ \E r \in 0..(MaxSize - 1) : Blur(r)
    \/ \E r \in 0..(MaxSize - 1) : GatherSend(r)
    \/ GatherRoot
    \/ \E r \in 0..(MaxSize - 1) : Barrier2(r)
    \/ RootWrite
    \/ RootWriteFails
    \/ \E r \in 0..(MaxSize - 1) : Finalize(r)
    \/ MpiExit
    \/ \E gpu, load_ok, alloc_ok, write_ok \in BOOLEAN :
          \E bad \in 0..Len(OclCalls) :
              OclRun(gpu, bad, load_ok, alloc_ok, write_ok)
    \/ \E arg \in BlockArgs : \E bad \in 0..Len(CudaCalls) :
          \E load_ok, alloc_ok, write_ok \in BOOLEAN :
              CudaRun(arg, bad, load_ok, alloc_ok, write_ok)

FaultSpec == FaultInit /\ [][FaultNext]_vars

\* every program keeps running: a step that can be taken is taken
FairFaultSpec == FaultSpec /\ WF_vars(FaultNext)

\* ------------------------------------------------ PGM files: image_io_pgm_old.c
\* A file is the sequence of its bytes; a position is the index of the next
\* byte to read.  An image is <<width, height, pixel bytes>>.
EOF == -1
NULL == <<-1>>
NL == 10
SP == 32
HASH == 35
PLUS == 43
MINUS == 45
DIGIT0 == 48
LETTER_P == 80
BACKSLASH == 92
LETTER_N == 110
LETTER_R == 114
LETTER_T == 116
\* the bytes isspace() accepts: \t \n \v \f \r and the space
SpaceBytes == {9, 10, 11, 12, 13, 32}

\* value of a two-character constant such as '\\n' (backslash, n)
MultiChar(a, b) == a * 256 + b

\* "# Created by Box Blur Program\n"
CommentLine ==
    <<35, 32, 67, 114, 101, 97, 116, 101, 100, 32, 98, 121, 32, 66, 111, 120,
      32, 66, 108, 117, 114, 32, 80, 114, 111, 103, 114, 97, 109, 10>>

\* printf("%d") of n >= 0
RECURSIVE Decimal(_)
Decimal(n) ==
    IF n < 10 THEN <<DIGIT0 + n>> ELSE Decimal(n \div 10) \o <<DIGIT0 + (n % 10)>>

\* the file write_image produces
write_image(image) ==
    <<LETTER_P, DIGIT0 + 5, NL>> \o CommentLine
    \o Decimal(image[1]) \o <<SP>> \o Decimal(image[2]) \o <<NL>>
    \o Decimal(255) \o <<NL>>
    \o image[3]

fgetc(file, pos) == IF pos > Len(file) THEN EOF ELSE file[pos]
\* position after fgetc
Advance(file, pos) == IF pos > Len(file) THEN pos ELSE pos + 1

\* the white space fscanf skips before a conversion
RECURSIVE SkipSpace(_, _)
SkipSpace(file, pos) ==
    IF pos <= Len(file) /\ file[pos] \in SpaceBytes
    THEN SkipSpace(file, pos + 1)
    ELSE pos

\* fscanf "%2s": <<converted, string, position>>
ScanFormat(file, pos) ==
    LET p1 == SkipSpace(file, pos)
        NonSpace(q) == q <= Len(file) /\ file[q] \notin SpaceBytes
    IN IF ~NonSpace(p1)
       THEN <<FALSE, <<>>, p1>>
       ELSE IF NonSpace(p1 + 1)
       THEN <<TRUE, <<file[p1], file[p1 + 1]>>, p1 + 2>>
       ELSE <<TRUE, <<file[p1]>>, p1 + 1>>

\* the digits of a "%d" conversion: <<value, position, digits read>>
RECURSIVE ScanDigits(_, _, _, _)
ScanDigits(file, pos, val, n) ==
    IF pos <= Len(file) /\ file[pos] \in DIGIT0..(DIGIT0 + 9)
    THEN ScanDigits(file, pos + 1, val * 10 + (file[pos] - DIGIT0), n + 1)
    ELSE <<val, pos, n>>

\* fscanf "%d": <<converted, value, position>>
ScanInt(file, pos) ==
    LET p1 == SkipSpace(file, pos)
        signed == p1 <= Len(file) /\ file[p1] \in {PLUS, MINUS}
        p2 == IF signed THEN p1 + 1 ELSE p1
        d == ScanDigits(file, p2, 0, 0)
    IN IF d[3] = 0
       THEN <<FALSE, 0, p1>>
       ELSE <<TRUE, IF signed /\ file[p1] = MINUS THEN 0 - d[1] ELSE d[1], d[2]>>

\* the inner loop of the comment skip: <<ch, position>>
RECURSIVE SkipCommentLine(_, _, _)
SkipCommentLine(file, pos, ch) ==
    IF ch # MultiChar(BACKSLASH, LETTER_N) /\ ch # EOF
    THEN SkipCommentLine(file, Advance(file, pos), fgetc(file, pos))
    ELSE <<ch, pos>>

\* the do-while loop "skip whitespace and comments": <<ch, position>>
RECURSIVE SkipWhitespaceAndComments(_, _)
SkipWhitespaceAndComments(file, pos) ==
    LET ch0 == fgetc(file, pos)
        after == IF ch0 = HASH
                 THEN SkipCommentLine(file, Advance(file, pos), ch0)
                 ELSE <<ch0, Advance(file, pos)>>
    IN IF after[1] \in {SP, MultiChar(BACKSLASH, LETTER_T),
                        MultiChar(BACKSLASH, LETTER_N),
                        MultiChar(BACKSLASH, LETTER_R), HASH}
       THEN SkipWhitespaceAndComments(file, after[2])
       ELSE after

\* "while (fgetc(file) != '\n' && !feof(file));": position after the loop
RECURSIVE SkipRestOfLine(_, _)
SkipRestOfLine(file, pos) ==
    IF pos > Len(file)
    THEN pos
    ELSE IF file[pos] = NL THEN pos + 1 ELSE SkipRestOfLine(file, pos + 1)

\* the pixel loop of the ASCII format: <<read, pixels>>
RECURSIVE ScanPixels(_, _, _, _)
ScanPixels(file, pos, n, pixels) ==
    IF n = 0
    THEN <<TRUE, pixels>>
    ELSE LET px == ScanInt(file, pos)
         IN IF ~px[1]
            THEN <<FALSE, pixels>>
            ELSE ScanPixels(file, px[3], n - 1, pixels \o <<px[2] % 256>>)

\* read_image on a file that could be opened, malloc_ok: malloc succeeds;
\* <<returned pointer, message printed>>
read_image(file, malloc_ok) ==
    LET format == ScanFormat(file, 1)
        isP5 == format[2] = <<LETTER_P, DIGIT0 + 5>>
        isP2 == format[2] = <<LETTER_P, DIGIT0 + 2>>
        skipped == SkipWhitespaceAndComments(file, format[3])
        header == IF skipped[1] # EOF THEN skipped[2] - 1 ELSE skipped[2]
        w == ScanInt(file, header)
        h == ScanInt(file, w[3])
        max_val == ScanInt(file, h[3])
        data == SkipRestOfLine(file, max_val[3])
        n == w[2] * h[2]
    IN IF ~format[1] \/ ~(isP5 \/ isP2)
       THEN <<NULL, "Invalid PGM format">>
       ELSE IF ~w[1] \/ ~h[1] \/ ~max_val[1]
       THEN <<NULL, "Invalid PGM header">>
       ELSE IF max_val[2] # 255
       THEN <<NULL, "Only 8-bit PGM images supported">>
       ELSE IF ~malloc_ok
       THEN <<NULL, "Memory allocation failed">>
       ELSE IF isP5
       THEN IF Len(file) - data + 1 < n
            THEN <<NULL, "Error reading image data">>
            ELSE <<<<w[2], h[2], SubSeq(file, data, data + n - 1)>>, "">>
       ELSE LET px == ScanPixels(file, data, n, <<>>)
            IN IF px[1]
               THEN <<<<w[2], h[2], px[2]>>, "">>
               ELSE <<NULL, "Error reading pixel data">>

\* a PGM file of the same image from another program: no comment line,
\* binary (P5) or ASCII (P2) pixels
RECURSIVE AsciiPixels(_, _)
AsciiPixels(pixels, i) ==
    IF i > Len(pixels)
    THEN <<>>
    ELSE Decimal(pixels[i]) \o <<NL>> \o AsciiPixels(pixels, i + 1)

ForeignFile(image, fmt) ==
    <<LETTER_P, DIGIT0 + fmt, NL>>
    \o Decimal(image[1]) \o <<SP>> \o Decimal(image[2]) \o <<NL>>
    \o Decimal(255) \o <<NL>>
    \o (IF fmt = 5 THEN image[3] ELSE AsciiPixels(image[3], 1))

\* the 8-bit grey images written and read back
PgmBytes == {0, 10, 35, 255}
PgmDims == (1..2) \X (1..2)
PgmImages ==
    UNION {{<<d[1], d[2], px>> : px \in [1..(d[1] * d[2]) -> PgmBytes]} :
              d \in PgmDims}
    \cup {<<12, 1, [i \in 1..12 |-> 20 * i]>>}

\* write_image: fopen or fwrite may fail (return -1)
PgmWrite(fopen_ok, fwrite_ok) ==
    /\ pgm_pc = "start"
    /\ IF fopen_ok /\ fwrite_ok
       THEN /\ pgm_file' = write_image(pgm_image)
            /\ pgm_pc' = "written"
       ELSE /\ pgm_file' = <<>>
            /\ pgm_pc' = "write_failed"
    /\ UNCHANGED <<pgm_image, pgm_result>>
    /\ UNCHANGED <<imgVars, runVars, ompVars, mpiVars, oclVars, cudaVars, faultVars>>

\* the file comes from another program
PgmForeign(fmt) ==
    /\ pgm_pc = "start"
    /\ pgm_file' = ForeignFile(pgm_image, fmt)
    /\ pgm_pc' = "foreign"
    /\ UNCHANGED <<pgm_image, pgm_result>>
    /\ UNCHANGED <<imgVars, runVars, ompVars, mpiVars, oclVars, cudaVars, faultVars>>

\* read_image on the file
PgmRead(fopen_ok, malloc_ok) ==
    /\ pgm_pc \in {"written", "foreign"}
    /\ pgm_result' = IF fopen_ok
                     THEN read_image(pgm_file, malloc_ok)
                     ELSE <<NULL, "Cannot open file">>
    /\ pgm_pc' = IF pgm_pc = "written" THEN "read_back" ELSE "read_foreign"
    /\ UNCHANGED <<pgm_image, pgm_file>>
    /\ UNCHANGED <<imgVars, runVars, ompVars, mpiVars, oclVars, cudaVars, faultVars>>

\* an image is about to be written to a PGM file; no blur program runs
PgmInit ==
    /\ Decoded({cf \in MainConfigs : cf[1] = <<1, 1>> /\ cf[2] = 1 /\ cf[4] = "ramp"})
    /\ phase = "end"
    /\ argc = [b \in Programs |-> 0]
    /\ ProgramsIdle
    /\ pgm_pc = "start"
    /\ pgm_image \in PgmImages
    /\ pgm_file = <<>> /\ pgm_result = <<>>

PgmNext ==
    \/ \E fopen_ok, fwrite_ok \in BOOLEAN : PgmWrite(fopen_ok, fwrite_ok)
    \/ \E fmt \in {2, 5} : PgmForeign(fmt)
    \/ \E fopen_ok, malloc_ok \in BOOLEAN : PgmRead(fopen_ok, malloc_ok)

PgmSpec == PgmInit /\ [][PgmNext]_vars

\* ------------------------------------------------------------- specification
Next ==
    \/ SerialMain
    \/ \E nt \in 1..MaxThreads : OmpStart(nt)
    \/ \E t \in 0..(MaxThreads - 1) : OmpThread(t)
    \/ OmpJoin
    \/ \E sz \in 1..MaxSize : MpiLaunch(sz)
    \/ RootLoad
    \/ \E r \in 0..(MaxSize - 1) : BcastMeta(r)
    \/ \E r \in 0..(MaxSize - 1) : Partition(r)
    \/ \E r \in 0..(MaxSize - 1) : Alloc(r)
    \/ \E r \in 0..(MaxSize - 1) : Barrier1(r)
    \/ \E r \in 0..(MaxSize - 1) : BcastInput(r)
    \/ \E r \in 0..(MaxSize - 1) : Blur(r)
    \/ \E r \in 0..(MaxSize - 1) : GatherSend(r)
    \/ GatherRoot
    \/ \E r \in 0..(MaxSize - 1) : Barrier2(r)
    \/ RootWrite
    \/ \E r \in 0..(MaxSize - 1) : Finalize(r)
    \/ MpiExit
    \/ OclStart
    \/ OclLaunch
    \/ OclRead
    \/ OclWrite
    \/ \E bd \in BlockDims : CudaStart(bd)
    \/ CudaLaunch
    \/ CudaCopy
    \/ CudaWrite

Spec == Init /\ [][Next]_vars

\* the serial kernel as a function of its arguments, kernel size included
KernelNext == SerialMain

KernelSpec == KernelInit /\ [][KernelNext]_vars

\* ------------------------------------------------------------- properties
\* every participant of the running MPI job has computed its row range
AllPartitioned == size > 0 /\ \A r \in Ranks : end_row[r] # Undef
RowsOf(r) == start_row[r]..(end_row[r] - 1)

\* C1: for every height >= 1 and size >= 1 the row ranges the participants
\* compute are ordered by rank, pairwise disjoint, and cover exactly
\* [0, height)
PartitionTiling ==
    AllPartitioned =>
        /\ \A r \in Ranks : start_row[r] <= end_row[r]
        /\ \A r, q \in Ranks :
              r < q => \A a \in RowsOf(r), b \in RowsOf(q) : a < b
        /\ UNION {RowsOf(r) : r \in Ranks} = 0..(height - 1)

PartitionTilingWitness ==
    /\ AllPartitioned
    /\ size = 3 /\ height = 5
    /\ RowsOf(0) = {0} /\ RowsOf(1) = {1} /\ RowsOf(2) = {2, 3, 4}

\* C6 as stated: when size > height the participants with an empty row range
\* are the trailing ones (no non-empty range follows an empty one)
EmptyRangesTrailing ==
    (AllPartitioned /\ size > height) =>
        \A r, q \in Ranks : (r < q /\ my_rows[r] = 0) => my_rows[q] = 0

\* C6 amended: when size > height every participant except the last has the
\* empty range [0, 0) and the last one has [0, height): the empty ranges
\* belong to the lowest-numbered participants
EmptyRangesLeading ==
    (AllPartitioned /\ size > height) =>
        /\ \A r \in Ranks \ {size - 1} : start_row[r] = 0 /\ end_row[r] = 0
        /\ start_row[size - 1] = 0 /\ end_row[size - 1] = height

EmptyRangesLeadingWitness ==
    /\ AllPartitioned
    /\ size = 3 /\ height = 2
    /\ my_rows[0] = 0 /\ my_rows[1] = 0 /\ my_rows[2] = 2

\* C7: every participant but the last has floor(height / size) rows, the last
\* has floor(height / size) + (height mod size) rows, and two participants
\* differ by more than one row only if size does not divide height
RowCounts ==
    AllPartitioned =>
        /\ \A r \in Ranks \ {size - 1} : my_rows[r] = height \div size
        /\ my_rows[size - 1] = (height \div size) + (height % size)
        /\ \A r, q \in Ranks :
              my_rows[r] - my_rows[q] > 1 => height % size # 0

RowCountsWitness ==
    /\ AllPartitioned
    /\ size = 3 /\ height = 5
    /\ my_rows[0] = 1 /\ my_rows[2] - my_rows[0] = 2

\* C8: the byte count every participant passes to the gather equals the
\* receive count root recomputes for that rank
GatherCountsAgree ==
    (size > 0 /\ recv_counts # <<>>) =>
        \A i \in Ranks :
            /\ gather_msgs[i] # <<>>
            /\ gather_msgs[i][1] = recv_counts[i]

GatherCountsAgreeWitness ==
    /\ size = 3 /\ height = 5 /\ width = 5
    /\ recv_counts = (0 :> 15 @@ 1 :> 15 @@ 2 :> 45)
    /\ gather_msgs[2][1] = 45
    /\ pc[0] = "barrier2"

\* the serial program has just returned
JustAfterSerial == phase = "openmp" /\ num_threads = 0

\* input sample read for output channel c at pixel (x, y)
InputSample(x, y, c) ==
    input_image[(y * width + x) * channels + (IF channels = 1 THEN 0 ELSE c) + 1]

\* the coordinates of the window around (x, y) that lie inside the image
ValidNeighbours(x, y) ==
    LET radius == kernel_size \div 2
    IN {q \in {<<x + n, y + m>> : n \in (-radius)..radius, m \in (-radius)..radius} :
           q[1] \in 0..(width - 1) /\ q[2] \in 0..(height - 1)}

RECURSIVE SumSamples(_, _)
SumSamples(S, c) ==
    IF S = {}
    THEN 0
    ELSE LET q == CHOOSE e \in S : TRUE
         IN InputSample(q[1], q[2], c) + SumSamples(S \ {q}, c)

\* C9: every output sample of the serial kernel is the truncated quotient of
\* the sum of the in-bounds neighbours of its channel by the number of
\* in-bounds neighbours; for the 4x4 single-channel image 0..15 and kernel
\* size 3, pixel (0,0) is 2 in all three channels
KernelAveragesValidNeighbours ==
    JustAfterSerial =>
        /\ \A x \in 0..(width - 1), y \in 0..(height - 1), c \in 0..2 :
              written["serial"][(y * width + x) * 3 + c + 1] =
                  SumSamples(ValidNeighbours(x, y), c)
                      \div Cardinality(ValidNeighbours(x, y))
        /\ (/\ width = 4 /\ height = 4 /\ channels = 1 /\ kernel_size = 3
            /\ input_image = [i \in 1..16 |-> i - 1])
           => SubSeq(written["serial"], 1, 3) = <<2, 2, 2>>

KernelAveragesValidNeighboursWitness ==
    /\ JustAfterSerial
    /\ width = 4 /\ height = 4 /\ channels = 1 /\ kernel_size = 3
    /\ input_image = [i \in 1..16 |-> i - 1]
    /\ Cardinality(ValidNeighbours(0, 0)) = 4
    /\ SubSeq(written["serial"], 1, 3) = <<2, 2, 2>>

\* C10: when every input sample equals v, every output sample of the serial
\* kernel equals v, corner and edge pixels included
UniformInputUnchanged ==
    (JustAfterSerial /\ \A i \in DOMAIN input_image : input_image[i] = input_image[1])
        => \A i \in DOMAIN written["serial"] : written["serial"][i] = input_image[1]

UniformInputUnchangedWitness ==
    /\ JustAfterSerial
    /\ width = 5 /\ height = 5 /\ kernel_size = 3
    /\ \A i \in DOMAIN input_image : input_image[i] = 255
    /\ Len(written["serial"]) = 75
    /\ written["serial"][1] = 255 /\ written["serial"][7] = 255

\* root is past the gather
RootGathered == size > 0 /\ pc[0] \in AtOrPastBarrier2

\* C2 as stated: for any input the four backends finish with byte-identical
\* width*height*3 output buffers
AllBackendsIdentical ==
    phase = "end" =>
        \A b \in Backends :
            /\ exit_status[b] = "EXIT_SUCCESS"
            /\ Len(written[b]) = width * height * 3
            /\ written[b] = written["serial"]

\* the backends that did hand a buffer to the image writer handed the same one
WrittenOutputsAgree ==
    \A b \in Programs : written[b] # NoImage => written[b] = written["serial"]

\* root is about to hand the assembled buffer to the image writer
RootAssembled == size > 0 /\ pc[0] = "write"

\* C3: the buffer assembled at root is the one a single participant owning
\* all rows produces, whatever the number of participants
GatheredOutputSizeInvariant ==
    RootAssembled =>
        output_rgb_root =
            apply_box_blur_mpi(input_image, Malloc(width * height * 3), width,
                               height, channels, kernel_size, 0, height)

GatheredOutputSizeInvariantWitness ==
    /\ RootAssembled
    /\ size = 3 /\ height = 5 /\ width = 5 /\ kernel_size = 5
    /\ pc[0] = "write"
    /\ Len(output_rgb_root) = 75
    /\ \A i \in DOMAIN output_rgb_root : output_rgb_root[i] # Undef

\* C4: with one MPI participant, and with one OpenMP thread, the output
\* buffer equals the one the serial program produced
SingleWorkerEqualsSerial ==
    /\ (RootGathered /\ size = 1) => output_rgb_root = written["serial"]
    /\ (phase = "openmp" /\ num_threads = 1 /\ omp_done = {0})
          => omp_output = written["serial"]

SingleWorkerEqualsSerialWitness ==
    /\ RootGathered /\ size = 1 /\ pc[0] = "write"
    /\ width = 4 /\ height = 4 /\ kernel_size = 5
    /\ output_rgb_root = written["serial"]
    /\ written["openmp"] = written["serial"]
    /\ Len(written["serial"]) = 48

\* C5 as stated: with more participants than rows nothing fails; an empty
\* range never leads to the abort path, contributes zero bytes, and root
\* ends with the complete output
OverPartitioningHarmless ==
    (size > 0 /\ size > height) =>
        /\ \A r \in Ranks : pc[r] # "aborted"
        /\ \A r \in Ranks :
              (my_rows[r] = 0 /\ gather_msgs[r] # <<>>) => gather_msgs[r][1] = 0
        /\ pc[0] \in {"write", "finalize", "done"} =>
              /\ Len(output_rgb_root) = width * height * 3
              /\ \A i \in DOMAIN output_rgb_root : output_rgb_root[i] # Undef

\* no cell of buffer buf holds the result of a division by zero
NoDivisionIn(buf) == \A i \in DOMAIN buf : buf[i] # DivisionByZero

\* C11: the kernel never divides by zero: for every image (width, height >= 1),
\* radius >= 0 and in-bounds pixel the number of valid neighbours is at least
\* 1 when sum / count is executed, in every backend
NoDivisionByZero ==
    /\ \A b \in Programs : NoDivisionIn(written[b])
    /\ NoDivisionIn(omp_output)
    /\ \A r \in Ranks : NoDivisionIn(my_output[r])
    /\ NoDivisionIn(d_output)
    /\ NoDivisionIn(cuda_d_output)
    /\ JustAfterSerial =>
          \A x \in 0..(width - 1), y \in 0..(height - 1), c \in 0..2 :
              /\ serial_window(input_image, width, height, channels,
                               kernel_size \div 2, x, y, c, 0, 0, 0)[2] >= 1
              /\ omp_window(input_image, width, height, channels,
                            kernel_size \div 2, x, y, c, 0, 0, 0)[2] >= 1
              /\ mpi_window(input_image, width, height, channels,
                            kernel_size \div 2, x, y, c, 0, 0, 0)[2] >= 1
              /\ ocl_window(input_image, width, height, channels,
                            kernel_size \div 2, x, y, c, 0, 0, 0)[2] >= 1
              /\ cuda_window(input_image, width, height, channels,
                             kernel_size \div 2, x, y, c, 0, 0, 0)[2] >= 1

NoDivisionByZeroWitness ==
    /\ JustAfterSerial
    /\ width = 1 /\ height = 1 /\ kernel_size = 1 /\ channels = 3
    /\ serial_window(input_image, 1, 1, 3, 0, 0, 0, 1, 0, 0, 0) = <<input_image[2], 1>>
    /\ written["serial"] = input_image

\* C12: every buffer handed to the image writer has 3 samples per pixel
\* whatever the channel count of the input, and for a 1-channel input the
\* three samples of every pixel are equal
ThreeSamplesPerPixel ==
    \A b \in Programs :
        written[b] # NoImage =>
            /\ Len(written[b]) = width * height * 3
            /\ channels = 1 =>
                  \A px \in 0..(width * height - 1) :
                      /\ written[b][px * 3 + 1] = written[b][px * 3 + 2]
                      /\ written[b][px * 3 + 2] = written[b][px * 3 + 3]

ThreeSamplesPerPixelWitness ==
    /\ written["serial"] # NoImage /\ written["openmp"] # NoImage
    /\ channels = 1 /\ width = 5 /\ height = 5
    /\ Len(input_image) = 25
    /\ Len(written["openmp"]) = 75
    /\ written["openmp"][4] = written["openmp"][6]
    /\ written["openmp"][4] # written["openmp"][1]

\* the input with the fourth sample of every pixel replaced by another value
AlphaChanged(img) ==
    [i \in DOMAIN img |-> IF (i - 1) % 4 = 3 THEN (img[i] + 101) % 256 ELSE img[i]]

\* the pixels and output channels of the image
Pixels == (0..(width - 1)) \X (0..(height - 1))

\* the OpenMP program has just returned
JustAfterOpenMP == phase = "mpi" /\ size = 0

\* C13: with a 4-channel input no backend reads a sample at channel index 3
\* (every source index read is 0, 1 or 2 mod 4), the output has no fourth
\* sample, and changing only the alpha samples of the input leaves the
\* output unchanged
AlphaNeverRead ==
    channels = 4 =>
        /\ JustAfterSerial =>
              /\ \A q \in Pixels, c \in 0..2 :
                    /\ serial_src_idx(width, 4, q[1], q[2], c) % 4 \in {0, 1, 2}
                    /\ omp_src_idx(width, 4, q[1], q[2], c) % 4 \in {0, 1, 2}
                    /\ mpi_src_idx(width, 4, q[1], q[2], c) % 4 \in {0, 1, 2}
                    /\ ocl_src_idx(width, 4, q[1], q[2], c) % 4 \in {0, 1, 2}
                    /\ cuda_src_idx(width, 4, q[1], q[2], c) % 4 \in {0, 1, 2}
              /\ written["serial"] =
                    apply_box_blur_color(AlphaChanged(input_image),
                        Malloc(width * height * 3), width, height, 4, kernel_size)
        /\ JustAfterOpenMP =>
              written["openmp"] =
                  omp_iterations(AlphaChanged(input_image),
                      Malloc(width * height * 3), width, height, 4, kernel_size,
                      0, width * height)
        /\ RootAssembled =>
              /\ Len(output_rgb_root) = width * height * 3
              /\ output_rgb_root =
                    apply_box_blur_mpi(AlphaChanged(input_image),
                        Malloc(width * height * 3), width, height, 4,
                        kernel_size, 0, height)
        /\ (phase = "opencl" /\ ocl_pc = "launch") =>
              NDRange(input_image, d_output, width, height, 4, kernel_size,
                      width, height, 0, width * height) =
              NDRange(AlphaChanged(input_image), d_output, width, height, 4,
                      kernel_size, width, height, 0, width * height)
        /\ (phase = "cuda" /\ cuda_pc = "write") =>
              /\ Len(cuda_output) = width * height * 3
              /\ cuda_output =
                    cuda_launch(AlphaChanged(input_image),
                        Malloc(width * height * 3), width, height, 4,
                        kernel_size, block_dim)

AlphaNeverReadWitness ==
    /\ RootAssembled /\ channels = 4 /\ size = 2
    /\ width = 2 /\ height = 2 /\ kernel_size = 5
    /\ AlphaChanged(input_image)[4] # input_image[4]
    /\ AlphaChanged(input_image)[3] = input_image[3]
    /\ written["serial"] # NoImage
    /\ Len(output_rgb_root) = 12
    /\ \A i \in DOMAIN output_rgb_root : output_rgb_root[i] \in 0..255

\* the cells of a buffer that have been stored
WrittenCells(buf) == {i \in DOMAIN buf : buf[i] # Undef}

\* the cells thread t of the OpenMP team stores, and the cells one iteration
\* of the collapsed loop stores
OmpThreadCells(t) ==
    WrittenCells(omp_iterations(input_image, Malloc(width * height * 3), width,
                    height, channels, kernel_size,
                    omp_chunk_start(width * height, num_threads, t),
                    omp_chunk_end(width * height, num_threads, t)))
OmpIterationCells(it) ==
    WrittenCells(omp_iteration(input_image, Malloc(width * height * 3), width,
                    height, channels, kernel_size, it))

\* the cells of root's output buffer the gather fills from participant i
GatherRegion(i) == (displs[i] + 1)..(displs[i] + recv_counts[i])

\* the cells of its partial buffer participant r stores
MpiStoreIndexes(r) ==
    {mpi_dst_idx(m_width[r], x, y, c, start_row[r]) + 1 :
        x \in 0..(m_width[r] - 1), y \in RowsOf(r), c \in 0..2}

\* the cells the CUDA thread / OpenCL work-item with linear id g stores
CudaThreadCells(g) ==
    LET tx == GridDim(width, block_dim) * block_dim
    IN WrittenCells(cuda_box_blur_kernel(input_image, Malloc(width * height * 3),
                        width, height, channels, kernel_size, g % tx, g \div tx))
OclWorkItemCells(g) ==
    WrittenCells(box_blur_kernel(input_image, Malloc(width * height * 3), width,
                    height, channels, kernel_size, g % width, g \div width))

\* C14: in every parallel backend each cell of the output buffer is stored by
\* exactly one worker and exactly once during a dispatch; no two workers
\* store the same cell
WriteOncePerCell ==
    LET AllCells == 1..(width * height * 3)
    IN /\ (phase = "openmp" /\ num_threads > 0) =>
             LET Team == 0..(num_threads - 1)
             IN /\ WrittenCells(omp_output) = UNION {OmpThreadCells(t) : t \in omp_done}
                /\ omp_done = {} =>
                      /\ \A t, u \in Team :
                            t # u => OmpThreadCells(t) \cap OmpThreadCells(u) = {}
                      /\ UNION {OmpThreadCells(t) : t \in Team} = AllCells
                      /\ \A it \in 0..(width * height - 1) :
                            Cardinality(OmpIterationCells(it)) = 3
                      /\ \A t \in Team :
                            Cardinality(OmpThreadCells(t)) =
                              3 * (omp_chunk_end(width * height, num_threads, t)
                                   - omp_chunk_start(width * height, num_threads, t))
       /\ size > 0 =>
             /\ \A r \in Ranks :
                   pc[r] = "gather" =>
                       /\ WrittenCells(my_output[r]) = MpiStoreIndexes(r)
                       /\ MpiStoreIndexes(r) = 1..(m_width[r] * my_rows[r] * 3)
                       /\ Cardinality(MpiStoreIndexes(r)) =
                             m_width[r] * my_rows[r] * 3
             /\ RootAssembled =>
                   /\ \A i, j \in Ranks :
                         i # j => GatherRegion(i) \cap GatherRegion(j) = {}
                   /\ UNION {GatherRegion(i) : i \in Ranks} = AllCells
       /\ (phase = "cuda" /\ cuda_pc = "launch") =>
             LET tx == GridDim(width, block_dim) * block_dim
                 ty == GridDim(height, block_dim) * block_dim
                 Threads == 0..(tx * ty - 1)
                 Storing == {g \in Threads : CudaThreadCells(g) # {}}
             IN /\ \A g \in Storing : Cardinality(CudaThreadCells(g)) = 3
                /\ Cardinality(Storing) = width * height
                /\ UNION {CudaThreadCells(g) : g \in Storing} = AllCells
       /\ (/\ phase = "opencl" /\ ocl_pc = "launch"
           /\ EnqueueAccepted(width, height, LOCAL_WORK_SIZE, LOCAL_WORK_SIZE)) =>
             LET Items == 0..(width * height - 1)
             IN /\ \A g \in Items : Cardinality(OclWorkItemCells(g)) = 3
                /\ UNION {OclWorkItemCells(g) : g \in Items} = AllCells

WriteOncePerCellWitness ==
    /\ phase = "openmp" /\ num_threads = 2 /\ omp_done = {1}
    /\ width = 5 /\ height = 5
    /\ WrittenCells(omp_output) = 40..75
    /\ OmpThreadCells(0) = 1..39

\* participant r has recorded start_time and not yet end_time
InTimedRegion(r) == pc[r] \in {"bcast_input", "blur", "gather", "barrier2"}

\* C15 as stated: between timer start and timer stop no backend writes to the
\* input buffer; on every participant the input buffer is the same at the
\* end of the dispatch as at its start
InputNeverWritten ==
    [][/\ input_image' = input_image
       /\ \A r \in Ranks : InTimedRegion(r) => input_rgb'[r] = input_rgb[r]]_vars

\* C15 amended: between timer start and timer stop no backend writes to the
\* buffer the image was loaded into (in the MPI program: root's buffer); the
\* input buffer of every other participant is written once, by the input
\* broadcast, which fills it with root's input, and does not change again
InputWrittenOnlyByBroadcast ==
    [][/\ input_image' = input_image
       /\ \A r \in Ranks :
             InTimedRegion(r) =>
                 \/ input_rgb'[r] = input_rgb[r]
                 \/ /\ r # 0 /\ pc[r] = "bcast_input" /\ pc'[r] = "blur"
                    /\ input_rgb'[r] = input_rgb[0]]_vars

InputWrittenOnlyByBroadcastWitness ==
    /\ size = 2 /\ width = 2 /\ height = 2 /\ channels = 3
    /\ pc[0] = "barrier2" /\ pc[1] = "barrier2"
    /\ input_rgb[0] = input_image /\ input_rgb[1] = input_image
    /\ my_output[1] # OutOfBounds /\ Len(my_output[1]) = 6

\* C16: apply_box_blur_openmp returns only after every thread has finished
\* its cells: the buffer the caller hands to the image writer has all of its
\* width*height*3 cells stored
OpenMPCompleteAtReturn ==
    written["openmp"] # NoImage =>
        /\ Len(written["openmp"]) = width * height * 3
        /\ WrittenCells(written["openmp"]) = 1..(width * height * 3)

OpenMPCompleteAtReturnWitness ==
    /\ JustAfterOpenMP
    /\ width = 2 /\ height = 1 /\ channels = 3 /\ kernel_size = 5
    /\ exit_status["openmp"] = "EXIT_SUCCESS"
    /\ WrittenCells(written["openmp"]) = 1..6

\* positions of a participant after the metadata broadcasts, after the input
\* broadcast and after the stencil
PastMetaBcast ==
    {"partition", "alloc", "barrier1", "bcast_input", "blur", "gather",
     "barrier2", "write", "finalize", "done"}
PastInputBcast == {"blur", "gather", "barrier2", "write", "finalize", "done"}
PastStencil == {"gather", "barrier2", "write", "finalize", "done"}

\* C17: on every participant the metadata is received before the input, the
\* whole input before the stencil runs, the stencil runs before the
\* participant contributes to the gather; no input sample is read before
\* the input broadcast completed on the participant, and root's assembled
\* output is not read before the gather completed
ProtocolOrder ==
    /\ size > 0 =>
          /\ WrittenCells(output_rgb_root) # {} =>
                \A q \in Ranks : gather_msgs[q] # <<>>
          /\ \A r \in Ranks :
              /\ pc[r] \in PastMetaBcast =>
                    /\ m_width[r] = width /\ m_height[r] = height
                    /\ m_channels[r] = channels
              /\ (r # 0 /\ input_rgb[r] # <<>>) =>
                    /\ m_width[r] = width /\ m_height[r] = height
                    /\ m_channels[r] = channels
              /\ pc[r] \in PastInputBcast => input_rgb[r] = input_image
              /\ WrittenCells(my_output[r]) # {} =>
                    /\ input_rgb[r] = input_image
                    /\ pc[r] \in PastStencil \cup {"aborted"}
              /\ pc[r] \in PastStencil =>
                    WrittenCells(my_output[r]) = DOMAIN my_output[r]
              /\ gather_msgs[r] # <<>> =>
                    /\ gather_msgs[r][2] = my_output[r]
                    /\ WrittenCells(my_output[r]) = DOMAIN my_output[r]
                    /\ pc[r] \in AtOrPastBarrier2 \cup {"aborted"}
    /\ written["mpi"] # NoImage =>
          /\ WrittenCells(written["mpi"]) = 1..(width * height * 3)
          /\ size > 0 => /\ recv_counts # <<>>
                         /\ \A r \in Ranks : gather_msgs[r] # <<>>

ProtocolOrderWitness ==
    /\ size = 3 /\ width = 4 /\ height = 4
    /\ pc[0] = "finalize" /\ pc[1] = "barrier2" /\ pc[2] = "finalize"
    /\ written["mpi"] # NoImage
    /\ input_rgb[2] = input_image
    /\ gather_msgs[2][1] = 24 /\ gather_msgs[1][1] = 12

\* recv_counts[0] + ... + recv_counts[i]
RECURSIVE SumRecvCounts(_)
SumRecvCounts(i) ==
    IF i < 0 THEN 0 ELSE recv_counts[i] + SumRecvCounts(i - 1)

\* C18: at root the gather places the partial result of participant i at
\* offset start_row_i * width * 3 with length (end_row_i - start_row_i) *
\* width * 3; the regions are contiguous in rank order from offset 0, the
\* receive counts sum to width * height * 3, and every byte of the output
\* is filled by exactly one region
GatherLayout ==
    (size > 0 /\ recv_counts # <<>>) =>
        /\ \A i \in Ranks :
              /\ displs[i] = start_row[i] * width * 3
              /\ recv_counts[i] = (end_row[i] - start_row[i]) * width * 3
        /\ displs[0] = 0
        /\ \A i \in Ranks \ {size - 1} :
              displs[i] + recv_counts[i] = displs[i + 1]
        /\ SumRecvCounts(size - 1) = width * height * 3
        /\ \A b \in 1..(width * height * 3) :
              Cardinality({i \in Ranks : b \in GatherRegion(i)}) = 1
        /\ pc[0] \in AtOrPastBarrier2 =>
              /\ WrittenCells(output_rgb_root) = 1..(width * height * 3)
              /\ \A i \in Ranks :
                    SubSeq(output_rgb_root, displs[i] + 1,
                           displs[i] + recv_counts[i]) = my_output[i]

GatherLayoutWitness ==
    /\ size = 3 /\ width = 4 /\ height = 4
    /\ pc[0] = "barrier2"
    /\ displs = (0 :> 0 @@ 1 :> 12 @@ 2 :> 24)
    /\ recv_counts = (0 :> 12 @@ 1 :> 12 @@ 2 :> 24)
    /\ SubSeq(output_rgb_root, 25, 48) = my_output[2]

\* participant r has recorded start_time / end_time
StartRecorded(r) ==
    pc[r] \in {"bcast_input", "blur", "gather", "barrier2", "write",
               "finalize", "done"}
EndRecorded(r) == pc[r] \in {"write", "finalize", "done"}

\* C20: a participant records start_time only after every participant has
\* reached the first barrier (so after root has loaded the image) and
\* end_time only after every participant has completed the gather and
\* reached the second barrier; root, the only participant that reads or
\* writes an image file, does neither between its start_time and end_time
TimedRegionBracketed ==
    size > 0 =>
        /\ \A r \in Ranks :
              /\ StartRecorded(r) =>
                    /\ \A q \in Ranks : pc[q] \in AtOrPastBarrier1
                    /\ input_rgb[0] = input_image
                    /\ meta_bcast = <<width, height, channels>>
              /\ EndRecorded(r) =>
                    /\ \A q \in Ranks :
                          /\ pc[q] \in AtOrPastBarrier2
                          /\ gather_msgs[q] # <<>>
                    /\ WrittenCells(output_rgb_root) = 1..(width * height * 3)
        /\ pc[0] \in {"load", "bcast_meta", "partition", "alloc"} =>
              \A q \in Ranks : ~StartRecorded(q)
        /\ (StartRecorded(0) /\ ~EndRecorded(0)) =>
              /\ input_rgb[0] = input_image
              /\ written["mpi"] = NoImage
        /\ written["mpi"] # NoImage => EndRecorded(0)

TimedRegionBracketedWitness ==
    /\ size = 3 /\ width = 2 /\ height = 2
    /\ pc[0] = "write" /\ pc[1] = "barrier2" /\ pc[2] = "finalize"
    /\ written["mpi"] = NoImage
    /\ EndRecorded(0) /\ StartRecorded(1) /\ ~EndRecorded(1)

\* C21: for every width >= 1 and height >= 1 the accelerator launch creates a
\* grid of ceil(width / tile) x ceil(height / tile) tiles, so that exactly one
\* execution unit runs for each output coordinate; units outside the image
\* neither read nor write.  Once an accelerator program is over, every cell of
\* the image it was started on has been stored by the unit of its coordinate.
LaunchCoversEveryCoordinate ==
    LET AllCells == 1..(width * height * 3)
    IN /\ phase \in {"cuda", "end"} =>
             WrittenCells(written["opencl"]) = AllCells
       /\ phase = "end" =>
             WrittenCells(written["cuda"]) = AllCells

\* C28: for every image, radius and in-bounds pixel, every source index a
\* kernel reads lies in [0, width * height * channels) and every destination
\* index it stores lies inside the output buffer it was given:
\* [0, width * height * 3) for the full-image kernels and
\* [0, (end_row - start_row) * width * 3) for a participant's partial buffer
IndexesInBounds ==
    JustAfterSerial =>
        /\ Len(written["serial"]) = width * height * 3
        /\ \A x \in 0..(width - 1), y \in 0..(height - 1), c \in 0..2 :
              /\ (y * width + x) * 3 + c \in 0..(width * height * 3 - 1)
              /\ \A q \in ValidNeighbours(x, y) :
                    /\ serial_src_idx(width, channels, q[1], q[2], c)
                          \in 0..(width * height * channels - 1)
                    /\ omp_src_idx(width, channels, q[1], q[2], c)
                          \in 0..(width * height * channels - 1)
                    /\ mpi_src_idx(width, channels, q[1], q[2], c)
                          \in 0..(width * height * channels - 1)
                    /\ ocl_src_idx(width, channels, q[1], q[2], c)
                          \in 0..(width * height * channels - 1)
                    /\ cuda_src_idx(width, channels, q[1], q[2], c)
                          \in 0..(width * height * channels - 1)
        /\ \A sz \in 1..MaxSize : \A r \in 0..(sz - 1) :
              LET rpp == RowsPerProcess(height, sz)
                  s == StartRow(r, rpp)
                  e == EndRow(r, sz, height, rpp)
              IN \A x \in 0..(width - 1), y \in s..(e - 1), c \in 0..2 :
                    mpi_dst_idx(width, x, y, c, s)
                        \in 0..((e - s) * width * 3 - 1)

IndexesInBoundsWitness ==
    /\ JustAfterSerial
    /\ width = 5 /\ height = 5 /\ channels = 4 /\ kernel_size = 5
    /\ <<4, 4>> \in ValidNeighbours(2, 2)
    /\ serial_src_idx(5, 4, 4, 4, 2) = 98
    /\ Len(input_image) = 100
    /\ mpi_dst_idx(5, 4, 4, 2, StartRow(2, RowsPerProcess(5, 3))) = 44
    /\ Len(written["serial"]) = 75

\* the input samples of channel c in the valid neighbourhood of (x, y)
NeighbourSamples(x, y, c) ==
    {InputSample(q[1], q[2], c) : q \in ValidNeighbours(x, y)}

\* C29: the value sum / count a kernel stores lies between the minimum and the
\* maximum of the input samples of the valid neighbourhood, hence in 0..255,
\* so the conversion to unsigned char changes nothing; and sum stays within
\* the range of a signed 32-bit int
QuotientWithinSamples ==
    JustAfterSerial =>
        \A x \in 0..(width - 1), y \in 0..(height - 1), c \in 0..2 :
            LET ser == serial_window(input_image, width, height, channels,
                                     kernel_size \div 2, x, y, c, 0, 0, 0)
                omp == omp_window(input_image, width, height, channels,
                                  kernel_size \div 2, x, y, c, 0, 0, 0)
                S == NeighbourSamples(x, y, c)
            IN /\ ser[1] \in 0..INT_MAX /\ omp[1] \in 0..INT_MAX
               /\ \A acc \in {ser, omp} :
                     LET quot == acc[1] \div acc[2]
                     IN /\ \E lo \in S : lo <= quot
                        /\ \E hi \in S : quot <= hi
                        /\ quot \in 0..255
                        /\ ToUChar(quot) = quot
               /\ written["serial"][(y * width + x) * 3 + c + 1] = ser[1] \div ser[2]

QuotientWithinSamplesWitness ==
    /\ JustAfterSerial
    /\ width = 5 /\ height = 5 /\ channels = 1 /\ kernel_size = 5
    /\ NeighbourSamples(2, 2, 0) = {255}
    /\ serial_window(input_image, 5, 5, 1, 2, 2, 2, 0, 0, 0, 0) = <<6375, 25>>
    /\ written["serial"][(2 * 5 + 2) * 3 + 1] = 255

\* C30: the PGM reader skips white space and '#' comment lines in the header,
\* so reading back a file that write_image produced succeeds and returns the
\* width, height and pixel bytes that were written
PgmRoundTrip ==
    (/\ pgm_pc = "read_back"
     /\ pgm_result[2] \notin {"Cannot open file", "Memory allocation failed"}) =>
        pgm_result[1] = pgm_image

\* the messages that report a fatal error
Diagnostics ==
    {"usage", "block size", "cannot read", "allocation failed",
     "OpenCL error", "MPI error", "error writing"}

\* C26: the OpenMP program started as the README documents it, with the
\* input path, the output path and a thread count as third argument, and
\* with no library call failing, runs the blur, writes the output image and
\* ends with EXIT_SUCCESS.
DocumentedThreadCountArgument ==
    (/\ phase = "end"
     /\ argc["openmp"] = 4
     /\ failed["openmp"] = {}) =>
        /\ kernel_called["openmp"]
        /\ written["openmp"] # NoImage
        /\ exit_status["openmp"] = "EXIT_SUCCESS"

\* C25: when the decoder hands the serial program an image whose channel
\* count is not 1, 3 or 4, the program ends with EXIT_FAILURE and a
\* diagnostic and apply_box_blur_color is never called.
UnsupportedChannelsRejected ==
    (/\ phase = "end"
     /\ argc["serial"] = 3
     /\ channels \notin ChannelCounts
     /\ "stbi_load" \notin failed["serial"]) =>
        /\ ~kernel_called["serial"]
        /\ written["serial"] = NoImage
        /\ exit_status["serial"] = "EXIT_FAILURE"
        /\ printed["serial"] \cap Diagnostics # {}

\* C23: the OpenCL program asks for a GPU device first; it asks for a CPU
\* device exactly when the GPU request failed, and goes on with that device
\* (up to the written image and EXIT_SUCCESS when nothing else fails); when
\* the CPU request fails too it ends with a diagnostic and EXIT_FAILURE,
\* without having launched the kernel or written an image.
DeviceDiscoveryFallsBack ==
    (phase = "end" /\ device_requests # <<>>) =>
        /\ device_requests[1] = "GPU"
        /\ device_requests \in {<<"GPU">>, <<"GPU", "CPU">>}
        /\ device_requests = <<"GPU", "CPU">>
              <=> "clGetDeviceIDs(GPU)" \in failed["opencl"]
        /\ failed["opencl"] = {"clGetDeviceIDs(GPU)"} =>
              /\ EnqueueAccepted(width, height, LOCAL_WORK_SIZE, LOCAL_WORK_SIZE)
              /\ kernel_called["opencl"]
              /\ written["opencl"] # NoImage
              /\ exit_status["opencl"] = "EXIT_SUCCESS"
        /\ "clGetDeviceIDs(CPU)" \in failed["opencl"] =>
              /\ device_requests = <<"GPU", "CPU">>
              /\ "OpenCL error" \in printed["opencl"]
              /\ exit_status["opencl"] = "EXIT_FAILURE"
              /\ ~kernel_called["opencl"]
              /\ written["opencl"] = NoImage

\* no GPU device, a CPU device is found and the run completes on it
DeviceDiscoveryFallsBackWitness ==
    /\ phase = "end"
    /\ device_requests = <<"GPU", "CPU">>
    /\ failed["opencl"] = {"clGetDeviceIDs(GPU)"}
    /\ "No GPU found" \in printed["opencl"]
    /\ written["opencl"] # NoImage
    /\ exit_status["opencl"] = "EXIT_SUCCESS"

\* the device calls whose failure is fatal for an accelerator program (a
\* failed request for a GPU device is not: the program falls back to a CPU)
AcceleratorCalls ==
    {OclCalls[i] : i \in 1..Len(OclCalls)}
    \cup {CudaCalls[i] : i \in 1..Len(CudaCalls)}

\* C22: when a device call of the OpenCL or of the CUDA program has failed,
\* the program ends with a diagnostic and a non-zero exit status, and it has
\* written no output image.
AcceleratorFailuresAbort ==
    \A p \in {"opencl", "cuda"} :
        (phase = "end" /\ failed[p] \cap AcceleratorCalls # {}) =>
            /\ printed[p] \cap Diagnostics # {}
            /\ exit_status[p] = "EXIT_FAILURE"
            /\ written[p] = NoImage

\* the library calls whose failure is a fatal error of a program
FatalCalls ==
    {"stbi_load", "malloc", "stbi_write", "MPI_Gatherv",
     "clGetPlatformIDs", "clGetDeviceIDs(CPU)", "clCreateContext",
     "clCreateCommandQueue", "clCreateProgramWithSource", "clBuildProgram",
     "clCreateKernel"}

\* the argument counts program p accepts
AcceptedArgCounts(p) == IF p = "cuda" THEN {3, 4} ELSE {3}

\* C24: a program that has ended with EXIT_SUCCESS has written its output
\* image and printed its results; a program that has ended after a wrong
\* argument count, an unreadable input, a failed allocation, a failed
\* accelerator initialisation or a failed output write has ended with a
\* non-zero status and has printed a diagnostic.
ExitStatusTellsOutcome ==
    \A p \in Programs :
        /\ exit_status[p] = "EXIT_SUCCESS" =>
              /\ written[p] # NoImage
              /\ "results" \in printed[p]
        /\ (/\ exit_status[p] # "none"
            /\ \/ argc[p] \notin AcceptedArgCounts(p)
               \/ failed[p] \cap FatalCalls # {}) =>
              /\ exit_status[p] # "EXIT_SUCCESS"
              /\ printed[p] \cap Diagnostics # {}

\* the order in which a participant goes through main, the same for every
\* rank but for root's load and write: pairs <<position, next position>>
MpiProgramOrder ==
    {<<"load", "bcast_meta">>, <<"bcast_meta", "partition">>,
     <<"partition", "alloc">>, <<"alloc", "barrier1">>,
     <<"barrier1", "bcast_input">>, <<"bcast_input", "blur">>,
     <<"blur", "gather">>, <<"gather", "barrier2">>,
     <<"barrier2", "write">>, <<"barrier2", "finalize">>,
     <<"write", "finalize">>, <<"finalize", "done">>,
     <<"usage", "failed">>}

\* a step of the running job in which participant r moves on
MpiMoves(r) ==
    /\ r \in Ranks
    /\ size' = size
    /\ pc'[r] # pc[r]

\* C27: every participant of the MPI program goes through the collectives
\* in the same order, whatever its rank and whether or not it has rows
\* (metadata broadcasts, barrier, input broadcast, gather with its
\* contribution delivered, barrier), unless the job is aborted; a job started
\* with the right argument count ends with every participant finalised or
\* with the job aborted; a job started with a wrong argument count ends with
\* every participant returned and nothing broadcast or gathered.
CollectivesComplete ==
    /\ [][\A r \in 0..(MaxSize - 1) :
            MpiMoves(r) =>
                /\ \/ <<pc[r], pc'[r]>> \in MpiProgramOrder
                   \/ pc'[r] = "aborted"
                /\ (r # 0 /\ pc[r] = "gather" /\ pc'[r] = "barrier2") =>
                       gather_msgs'[r] # <<>>]_vars
    /\ (phase = "mpi" /\ argc["mpi"] = 3) ~>
           \/ size > 0 /\ \A r \in Ranks : pc[r] = "done"
           \/ size > 0 /\ \A r \in Ranks : pc[r] = "aborted"
    /\ (phase = "mpi" /\ argc["mpi"] \notin {0, 3}) ~>
           /\ exit_status["mpi"] = "EXIT_FAILURE"
           /\ printed["mpi"] = {"usage"}
           /\ meta_bcast = <<>> /\ input_bcast = <<>>
           /\ recv_counts = <<>>

\* three participants, two of them without rows, all finalised
CollectivesCompleteWitness ==
    /\ phase = "mpi"
    /\ size >= 3
    /\ \E r \in Ranks : my_rows[r] = 0
    /\ \E r \in Ranks : my_rows[r] > 0
    /\ \A r \in Ranks : pc[r] = "done"

====
